---- MODULE Spec2Model ----
(***************************************************************************)
(* Cemetery administration: funeral-right contracts, the ownership and     *)
(* beneficiary ledgers, ownership-transfer cases and maintenance-fee       *)
(* billing (app/cemetery/services.py, app/core/models.py).                 *)
(*                                                                         *)
(* One request is one step.  A service function works on the SQLAlchemy    *)
(* session: the operators below take the database as a record `s` and      *)
(* return the session as it is when the function returns or raises.  The   *)
(* request then either commits it (checking the schema's constraints) or,  *)
(* when the function raised, drops it at the end of the request.           *)
(*                                                                         *)
(* Dates are day numbers 1, 2, ...; a year has DaysPerYear days.  Amounts  *)
(* are in cents.  The movement and contract-event tables are append-only   *)
(* and never read by a service: the model keeps, in `last`, the rows the   *)
(* last request inserted.                                                  *)
(*                                                                         *)
(* Every row carries the org_id of the organization that owns it, and      *)
(* every query of a service filters on org_id(), the organization of the   *)
(* logged-in user's membership.                                            *)
(***************************************************************************)
EXTENDS Integers, Sequences, FiniteSets, TLC

VARIABLES
    today,          \* date.today()
    current_user,   \* the logged-in user (flask_login.current_user)
    sepulturas,     \* sepultura id -> [estado]
    contratos,      \* derecho_funerario_contrato rows, id = index
    ownership,      \* ownership_record rows
    beneficiarios,  \* beneficiario rows
    cases,          \* ownership_transfer_case rows with documents, parties, publications
    tickets,        \* tasa_mantenimiento_ticket rows
    invoices,       \* invoice rows
    payments,       \* payment rows
    expedientes,    \* expediente rows
    ordenes,        \* orden_trabajo rows
    stock,          \* lapida_stock rows
    stock_movs,     \* lapida_stock_movimiento rows
    inscripciones,  \* inscripcion_lateral rows
    last,           \* the last request: operation, arguments, outcome, rows logged
    workers         \* collect_tickets requests in flight: position and session of each

vars == <<today, current_user, sepulturas, contratos, ownership, beneficiarios, cases,
          tickets, invoices, payments, expedientes, ordenes, stock, stock_movs,
          inscripciones, last, workers>>

tables == <<sepulturas, contratos, ownership, beneficiarios, cases,
            tickets, invoices, payments, expedientes, ordenes, stock, stock_movs,
            inscripciones>>

---------------------------------------------------------------------------
(* Bounds of the model *)

NumSepulturas == 2
NumPersons == 3
MaxDay == 2
DaysPerYear == 2
MaxContratos == 2
MaxCases == 2
MaxOwnership == 4
MaxBeneficiarios == 3
MaxParties == 2
MaxPublications == 2
MaxYear == 3
MaxTickets == 4
MaxExpedientes == 2
MaxOrdenes == 2
MaxInscripciones == 2
MaxStockMovs == 3
MaxGraves == 6

---------------------------------------------------------------------------
(* Values *)

NULL == 0
NONE == "None"

\* "<prefix>-<year>-<n:04d>": the number n of a year
NumberBase == 10000
Number(year, n) == (year * NumberBase) + n
NumberYear(numero) == numero \div NumberBase

Sepulturas == 1..NumSepulturas
Persons == 1..NumPersons
NoPerson == NumPersons + 1

\* Two organizations, each with one user: user u is a member of organization u.
\* The persons 1..NumPersons belong to organization 1, OtherOrgPerson to
\* organization 2.
Users == {1, 2}
OtherOrgPerson == NumPersons + 2
PersonOrgId(person_id) == IF person_id = OtherOrgPerson THEN 2 ELSE 1

\* g.org.id after load_tenant_context: the organization of the first
\* membership of the user
load_tenant_context(user_id) == user_id
Days == 1..MaxDay

YearOf(d) == ((d - 1) \div DaysPerYear) + 1
Jan1(y) == ((y - 1) * DaysPerYear) + 1

SepulturaEstado == {"LLIURE", "DISPONIBLE", "OCUPADA", "INACTIVA", "PROPIA"}
DerechoTipo == {"CONCESION", "USO_INMEDIATO"}
OwnershipTransferStatus ==
    {"DRAFT", "DOCS_PENDING", "UNDER_REVIEW", "APPROVED", "REJECTED", "CLOSED"}
OwnershipTransferType ==
    {"MORTIS_CAUSA_TESTAMENTO", "MORTIS_CAUSA_CON_BENEFICIARIO", "INTER_VIVOS", "PROVISIONAL"}
OwnershipPartyRole ==
    {"CAUSANT", "ANTERIOR_TITULAR", "NUEVO_TITULAR", "REPRESENTANTE", "OTRO"}
CaseDocumentStatus == {"MISSING", "PROVIDED", "VERIFIED", "REJECTED"}
BeneficiaryCloseDecision == {"KEEP", "REPLACE"}

CASE_STATUS_TRANSITIONS ==
    [st \in OwnershipTransferStatus |->
        CASE st = "DRAFT" -> {"DOCS_PENDING"}
          [] st = "DOCS_PENDING" -> {"UNDER_REVIEW", "REJECTED"}
          [] st = "UNDER_REVIEW" -> {"DOCS_PENDING", "APPROVED", "REJECTED"}
          [] st = "REJECTED" -> {"DOCS_PENDING"}
          [] st = "APPROVED" -> {"CLOSED"}
          [] st = "CLOSED" -> {}]

\* The checklist of each transfer type: <<doc_type, required>>.  Two required
\* documents stand for the required documents of a type; the two beneficiary
\* documents are optional in every type.
CASE_CHECKLIST ==
    [t \in OwnershipTransferType |->
        CASE t = "MORTIS_CAUSA_TESTAMENTO" ->
                <<<<"CERT_DEFUNCION", TRUE>>, <<"TITULO_SEPULTURA", TRUE>>,
                  <<"SOLICITUD_BENEFICIARIO", FALSE>>, <<"DNI_NUEVO_BENEFICIARIO", FALSE>>>>
          [] t = "MORTIS_CAUSA_CON_BENEFICIARIO" ->
                <<<<"CERT_DEFUNCION", TRUE>>, <<"TITULO_SEPULTURA", TRUE>>,
                  <<"SOLICITUD_BENEFICIARIO", FALSE>>, <<"DNI_NUEVO_BENEFICIARIO", FALSE>>>>
          [] t = "INTER_VIVOS" ->
                <<<<"ACREDITACION_PARENTESCO_2_GRADO", TRUE>>, <<"TITULO_SEPULTURA", TRUE>>,
                  <<"SOLICITUD_BENEFICIARIO", FALSE>>, <<"DNI_NUEVO_BENEFICIARIO", FALSE>>>>
          [] t = "PROVISIONAL" ->
                <<<<"PUBLICACION_BOP", TRUE>>, <<"TITULO_SEPULTURA", TRUE>>,
                  <<"SOLICITUD_BENEFICIARIO", FALSE>>, <<"DNI_NUEVO_BENEFICIARIO", FALSE>>>>]

BENEFICIARY_REPLACE_REQUIRED_DOC_TYPES == {"SOLICITUD_BENEFICIARIO", "DNI_NUEVO_BENEFICIARIO"}

EXPEDIENTE_STATES == {"ABIERTO", "EN_TRAMITE", "FINALIZADO", "CANCELADO"}

EXPEDIENTE_TRANSITIONS ==
    [st \in EXPEDIENTE_STATES |->
        CASE st = "ABIERTO" -> {"EN_TRAMITE", "CANCELADO"}
          [] st = "EN_TRAMITE" -> {"FINALIZADO", "CANCELADO"}
          [] st = "FINALIZADO" -> {}
          [] st = "CANCELADO" -> {}]

INSCRIPCION_STATES ==
    {"PENDIENTE_GRABAR", "PENDIENTE_COLOCAR", "PENDIENTE_NOTIFICAR", "NOTIFICADA"}

\* INSCRIPCION_TRANSITIONS.get(current, ""): NOTIFICADA has no entry
INSCRIPCION_TRANSITIONS(current) ==
    CASE current = "PENDIENTE_GRABAR" -> "PENDIENTE_COLOCAR"
      [] current = "PENDIENTE_COLOCAR" -> "PENDIENTE_NOTIFICAR"
      [] current = "PENDIENTE_NOTIFICAR" -> "NOTIFICADA"
      [] OTHER -> ""

\* str.upper() on the strings that are posted in lower case
Upper(raw) ==
    CASE raw = "en_tramite" -> "EN_TRAMITE"
      [] raw = "cancelado" -> "CANCELADO"
      [] raw = "pendiente_colocar" -> "PENDIENTE_COLOCAR"
      [] raw = "notificada" -> "NOTIFICADA"
      [] raw = "lap-a" -> "LAP-A"
      [] raw = "exhumacion" -> "EXHUMACION"
      [] raw = "bop" -> "BOP"
      [] OTHER -> raw

---------------------------------------------------------------------------
(* The session *)

DB ==
    [org |-> load_tenant_context(current_user),
     sepulturas |-> sepulturas, contratos |-> contratos, ownership |-> ownership,
     beneficiarios |-> beneficiarios, cases |-> cases, tickets |-> tickets,
     invoices |-> invoices, payments |-> payments,
     expedientes |-> expedientes, ordenes |-> ordenes, stock |-> stock,
     stock_movs |-> stock_movs, inscripciones |-> inscripciones,
     movs |-> <<>>, events |-> <<>>]

\* org_id(): g.org.id
org_id(s) == s.org

Ok(s, ret) == [ok |-> TRUE, err |-> "", s |-> s, ret |-> ret]
Raise(s, err) == [ok |-> FALSE, err |-> err, s |-> s, ret |-> NULL]

Indices(seq) == 1..Len(seq)

\* _log_case_movement / MovimientoSepultura rows added to the session
AddMov(s, sepultura_id, tipo) ==
    [s EXCEPT !.movs = Append(@, [sepultura_id |-> sepultura_id, tipo |-> tipo])]

_log_case_movement(s, contract_id, tipo) ==
    AddMov(s, s.contratos[contract_id].sepultura_id, tipo)

_log_contract_event(s, contract_id, case_id, event_type) ==
    [s EXCEPT !.events = Append(@, [contract_id |-> contract_id, case_id |-> case_id,
                                    event_type |-> event_type])]

---------------------------------------------------------------------------
(* Schema constraints, checked when the session is flushed *)

\* the index on (org_id, contract_id) without its uniqueness
UqOwnershipCurrentNotUnique(s) == TRUE

\* ix_ownership_record_org_contract_current: unique (contract_id) where end_date IS NULL
UqOwnershipCurrent(s) ==
    \A i, j \in Indices(s.ownership) :
        (/\ s.ownership[i].contract_id = s.ownership[j].contract_id
         /\ s.ownership[i].end_date = NULL
         /\ s.ownership[j].end_date = NULL) => i = j

\* ck_ownership_dates: end_date IS NULL OR end_date >= start_date
CkOwnershipDates(s) ==
    \A i \in Indices(s.ownership) :
        s.ownership[i].end_date = NULL \/ s.ownership[i].end_date >= s.ownership[i].start_date

\* the index on (org_id, contrato_id) without its uniqueness
UqBeneficiarioCurrentNotUnique(s) == TRUE

\* ix_beneficiario_org_contract_current: unique (contrato_id) where activo_hasta IS NULL
UqBeneficiarioCurrent(s) ==
    \A i, j \in Indices(s.beneficiarios) :
        (/\ s.beneficiarios[i].contrato_id = s.beneficiarios[j].contrato_id
         /\ s.beneficiarios[i].activo_hasta = NULL
         /\ s.beneficiarios[j].activo_hasta = NULL) => i = j

\* ck_contract_dates: fecha_fin >= fecha_inicio
CkContractDates(s) ==
    \A i \in Indices(s.contratos) : s.contratos[i].fecha_fin >= s.contratos[i].fecha_inicio

\* uq_ownership_case_org_number, uq_ownership_case_org_resolution
UqCaseNumbers(s) ==
    \A i, j \in Indices(s.cases) :
        i # j /\ s.cases[i].org_id = s.cases[j].org_id =>
            /\ s.cases[i].case_number # s.cases[j].case_number
            /\ (s.cases[i].resolution_number # NULL
                    => s.cases[i].resolution_number # s.cases[j].resolution_number)

\* uq_ticket_contract_year
UqTicketContractYear(s) ==
    \A i, j \in Indices(s.tickets) :
        (/\ s.tickets[i].contrato_id = s.tickets[j].contrato_id
         /\ s.tickets[i].anio = s.tickets[j].anio) => i = j

\* uq_invoice_org_number, uq_payment_org_receipt
UqInvoiceNumber(s) ==
    \A i, j \in Indices(s.invoices) :
        (/\ s.invoices[i].org_id = s.invoices[j].org_id
         /\ s.invoices[i].numero = s.invoices[j].numero) => i = j

UqPaymentReceipt(s) ==
    \A i, j \in Indices(s.payments) :
        (/\ s.payments[i].org_id = s.payments[j].org_id
         /\ s.payments[i].receipt_number = s.payments[j].receipt_number) => i = j

\* uq_sepultura_location; an organization has one cemetery
UqSepulturaLocation(s) ==
    \A i, j \in DOMAIN s.sepulturas :
        (/\ s.sepulturas[i].org_id = s.sepulturas[j].org_id
         /\ s.sepulturas[i].bloque = s.sepulturas[j].bloque
         /\ s.sepulturas[i].fila = s.sepulturas[j].fila
         /\ s.sepulturas[i].columna = s.sepulturas[j].columna
         /\ s.sepulturas[i].numero = s.sepulturas[j].numero) => i = j

\* uq_expediente_org_number
UqExpedienteNumber(s) ==
    \A i, j \in Indices(s.expedientes) :
        (/\ s.expedientes[i].org_id = s.expedientes[j].org_id
         /\ s.expedientes[i].numero = s.expedientes[j].numero) => i = j

Integrity(s) ==
    /\ UqSepulturaLocation(s)
    /\ UqExpedienteNumber(s)
    /\ UqOwnershipCurrent(s)
    /\ CkOwnershipDates(s)
    /\ UqBeneficiarioCurrent(s)
    /\ CkContractDates(s)
    /\ UqCaseNumbers(s)
    /\ UqTicketContractYear(s)
    /\ UqInvoiceNumber(s)
    /\ UqPaymentReceipt(s)

---------------------------------------------------------------------------
(* Queries *)

MaxOf(S) == CHOOSE x \in S : \A y \in S : y <= x

\* a lookup of the active contract that finds none
active_contract_never(s, sepultura_id) == NULL

\* .first() of a query: NULL when no row matches, else any row with the
\* greatest ORDER BY key (rows with equal keys come in an unspecified order).
active_contract_for_sepultura(s, sepultura_id) ==
    LET rows == {i \in Indices(s.contratos) :
                    /\ s.contratos[i].org_id = org_id(s)
                    /\ s.contratos[i].sepultura_id = sepultura_id
                    /\ s.contratos[i].estado = "ACTIVO"}
    IN IF rows = {} THEN NULL ELSE MaxOf(rows)

active_titular_for_contract(s, contract_id, day) ==
    LET rows == {i \in Indices(s.ownership) :
                    /\ s.ownership[i].org_id = org_id(s)
                    /\ s.ownership[i].contract_id = contract_id
                    /\ (s.ownership[i].end_date = NULL \/ s.ownership[i].end_date >= day)}
        top == MaxOf({s.ownership[i].start_date : i \in rows})
    IN IF rows = {} THEN {NULL} ELSE {i \in rows : s.ownership[i].start_date = top}

active_beneficiario_for_contract(s, contract_id, day) ==
    LET rows == {i \in Indices(s.beneficiarios) :
                    /\ s.beneficiarios[i].org_id = org_id(s)
                    /\ s.beneficiarios[i].contrato_id = contract_id
                    /\ (s.beneficiarios[i].activo_hasta = NULL
                            \/ s.beneficiarios[i].activo_hasta >= day)}
        top == MaxOf({s.beneficiarios[i].activo_desde : i \in rows})
    IN IF rows = {} THEN {NULL} ELSE {i \in rows : s.beneficiarios[i].activo_desde = top}

sepultura_by_id(s, sepultura_id) ==
    sepultura_id \in Sepulturas /\ s.sepulturas[sepultura_id].org_id = org_id(s)

_person_by_org(s, person_id) ==
    person_id \in Persons \cup {OtherOrgPerson} /\ PersonOrgId(person_id) = org_id(s)

\* a lookup that returns the first party of the case, whatever its role
_case_party_first(case, role) ==
    IF case.parties = <<>> THEN NULL ELSE case.parties[1].person_id

_case_party(case, role) ==
    LET hits == {k \in Indices(case.parties) : case.parties[k].role = role}
    IN IF hits = {} THEN NULL ELSE case.parties[CHOOSE k \in hits : \A m \in hits : k <= m].person_id

DocTypes(case) == DOMAIN case.documents

pending_required(case) ==
    {d \in DocTypes(case) : case.documents[d].required /\ case.documents[d].status # "VERIFIED"}

\* count of the organization's rows whose number is LIKE '<prefix>-<year>-%'
CountLike(s, seq, field, year) ==
    Cardinality({i \in Indices(seq) :
                    /\ seq[i].org_id = org_id(s)
                    /\ seq[i][field] # NULL
                    /\ NumberYear(seq[i][field]) = year})

\* "TR-<year>-<count+1>"
_next_transfer_number(s, year) == Number(year, CountLike(s, s.cases, "case_number", year) + 1)

\* "RES-<year>-<count+1>"
_next_resolution_number(s, year) ==
    Number(year, CountLike(s, s.cases, "resolution_number", year) + 1)

---------------------------------------------------------------------------
(* Contracts and the beneficiary ledger *)

\* @validates("fecha_inicio", "fecha_fin", "tipo", "legacy_99_years"): whether
\* the assignment self.<_key> = value is accepted.  An attribute that is not set
\* yet is NULL (a date), "" (tipo) or FALSE (legacy_99_years).
validate_duration_fields(self, _key, value) ==
    LET fecha_inicio == IF _key = "fecha_inicio" THEN value ELSE self.fecha_inicio
        fecha_fin == IF _key = "fecha_fin" THEN value ELSE self.fecha_fin
        tipo == IF _key = "tipo" THEN value ELSE self.tipo
        legacy_99_years == IF _key = "legacy_99_years" THEN value ELSE self.legacy_99_years
        years == YearOf(fecha_fin) - YearOf(fecha_inicio)
        max_years == IF tipo = "USO_INMEDIATO" THEN 25
                     ELSE IF legacy_99_years THEN 99 ELSE 50
    IN (fecha_inicio # NULL /\ fecha_fin # NULL /\ tipo # "") => years <= max_years

\* contract_after_insert: the grave becomes OCUPADA and a CONTRATO movement is logged
contract_after_insert(s, sepultura_id) ==
    AddMov([s EXCEPT !.sepulturas[sepultura_id].estado = "OCUPADA"], sepultura_id, "CONTRATO")

create_funeral_right_contract(s, sepultura_id, p) ==
    IF ~sepultura_by_id(s, sepultura_id) THEN Raise(s, "Sepultura no encontrada")
    ELSE IF s.sepulturas[sepultura_id].estado # "DISPONIBLE"
        THEN Raise(s, "Solo DISPONIBLE")
    ELSE IF active_contract_for_sepultura(s, sepultura_id) # NULL
        THEN Raise(s, "Contrato activo")
    ELSE IF p.tipo \notin DerechoTipo THEN Raise(s, "Tipo invalido")
    ELSE IF ~_person_by_org(s, p.titular_person_id) THEN Raise(s, "Titular no encontrada")
    \* DerechoFunerarioContrato(tipo=, fecha_inicio=, legacy_99_years=, fecha_fin=):
    \* the last of the four assignments is the one that finds every field set
    ELSE IF ~validate_duration_fields(
                [tipo |-> p.tipo, fecha_inicio |-> p.fecha_inicio,
                 legacy_99_years |-> p.legacy_99_years, fecha_fin |-> NULL],
                "fecha_fin", p.fecha_fin)
        THEN Raise(s, "Limite legal")
    ELSE
        LET contrato == [org_id |-> org_id(s), sepultura_id |-> sepultura_id, tipo |-> p.tipo,
                         fecha_inicio |-> p.fecha_inicio, fecha_fin |-> p.fecha_fin,
                         legacy_99_years |-> p.legacy_99_years,
                         annual_fee_amount |-> p.annual_fee_amount, estado |-> "ACTIVO"]
            id == Len(s.contratos) + 1
            s1 == contract_after_insert([s EXCEPT !.contratos = Append(@, contrato)], sepultura_id)
            s2 == [s1 EXCEPT !.ownership = Append(@,
                        [org_id |-> org_id(s),
                         contract_id |-> id, person_id |-> p.titular_person_id,
                         start_date |-> p.fecha_inicio, end_date |-> NULL,
                         is_pensioner |-> p.pensionista,
                         pensioner_since_date |-> p.pensionista_desde,
                         is_provisional |-> FALSE, provisional_until |-> NULL])]
        IN IF ~CkContractDates(s1) THEN Raise(s1, "IntegrityError")
           ELSE IF p.beneficiario_person_id = NULL THEN Ok(s2, id)
           ELSE IF ~_person_by_org(s, p.beneficiario_person_id)
                THEN Raise(s2, "Beneficiario no encontrada")
           ELSE Ok([s2 EXCEPT !.beneficiarios = Append(@,
                        [org_id |-> org_id(s),
                         contrato_id |-> id, person_id |-> p.beneficiario_person_id,
                         activo_desde |-> p.fecha_inicio, activo_hasta |-> NULL])], id)

contract_by_id(s, contract_id) ==
    contract_id \in Indices(s.contratos) /\ s.contratos[contract_id].org_id = org_id(s)

\* the title shows the contract, its grave, holder and beneficiary; issuing it
\* logs a CONTRATO movement on the grave
funeral_right_title_pdf(s, contract_id) ==
    IF ~contract_by_id(s, contract_id) THEN Raise(s, "Contrato no encontrado")
    ELSE IF ~sepultura_by_id(s, s.contratos[contract_id].sepultura_id)
        THEN Raise(s, "Sepultura no encontrada")
    ELSE Ok(AddMov(s, s.contratos[contract_id].sepultura_id, "CONTRATO"), contract_id)

\* contrato.<_key> = value on a stored contract, then commit
assign_contract_field(s, contract_id, _key, value) ==
    IF ~contract_by_id(s, contract_id) THEN Raise(s, "Contrato no encontrado")
    ELSE IF ~validate_duration_fields(s.contratos[contract_id], _key, value)
        THEN Raise(s, "Limite legal")
    ELSE Ok([s EXCEPT !.contratos[contract_id] = [@ EXCEPT ![_key] = value]], contract_id)

\* `active` is the row active_beneficiario_for_contract returned
nominate_contract_beneficiary(s, day, contract_id, person_id, active) ==
    IF ~contract_by_id(s, contract_id) THEN Raise(s, "Contrato no encontrado")
    ELSE IF ~_person_by_org(s, person_id) THEN Raise(s, "Beneficiario no encontrada")
    ELSE
        LET logged == _log_contract_event(
                        _log_case_movement(s, contract_id, "BENEFICIARIO"),
                        contract_id, NULL, "BENEFICIARIO")
            ended == IF active # NULL
                     THEN [logged EXCEPT !.beneficiarios[active].activo_hasta = day]
                     ELSE logged
        IN IF active # NULL /\ s.beneficiarios[active].person_id = person_id
           THEN Ok(logged, active)
           ELSE Ok([ended EXCEPT !.beneficiarios = Append(@,
                        [org_id |-> org_id(s),
                         contrato_id |-> contract_id, person_id |-> person_id,
                         activo_desde |-> day, activo_hasta |-> NULL])],
                   Len(s.beneficiarios) + 1)

\* payload end_date: NULL stands for an empty field (today)
remove_contract_beneficiary(s, day, contract_id, end_date_raw) ==
    IF ~contract_by_id(s, contract_id) THEN Raise(s, "Contrato no encontrado")
    ELSE
        LET open == {i \in Indices(s.beneficiarios) :
                        /\ s.beneficiarios[i].org_id = org_id(s)
                        /\ s.beneficiarios[i].contrato_id = contract_id
                        /\ s.beneficiarios[i].activo_hasta = NULL}
            top == MaxOf({s.beneficiarios[i].activo_desde : i \in open})
            active == MaxOf({i \in open : s.beneficiarios[i].activo_desde = top})
            end_date == IF end_date_raw = NULL THEN day ELSE end_date_raw
        IN IF open = {} THEN Raise(s, "No hay beneficiario activo")
           ELSE IF end_date < s.beneficiarios[active].activo_desde
                THEN Raise(s, "Fecha de baja invalida")
           ELSE Ok(_log_contract_event(
                       _log_case_movement(
                           [s EXCEPT !.beneficiarios[active].activo_hasta = end_date],
                           contract_id, "BENEFICIARIO"),
                       contract_id, NULL, "BENEFICIARIO_BAJA"),
                   active)

---------------------------------------------------------------------------
(* Ownership-transfer cases *)

\* the lookup of a case by its id alone
_get_case_or_404_any_org(s, case_id) == case_id \in Indices(s.cases)

_get_case_or_404(s, case_id) ==
    case_id \in Indices(s.cases) /\ s.cases[case_id].org_id = org_id(s)

\* the page of a case: the case, its contract, grave, holder and beneficiary
ownership_case_detail(s, case_id) ==
    IF ~_get_case_or_404(s, case_id) THEN Raise(s, "Caso no encontrado")
    ELSE Ok(s, case_id)

\* a transition check that only refuses the status the case already has
_transition_allowed_any(case, new_status) == new_status # case.status

_transition_allowed(case, new_status) == new_status \in CASE_STATUS_TRANSITIONS[case.status]

\* _transition_case_status, once the transition is allowed
_transition_case_status(s, case_id, new_status) ==
    [s EXCEPT !.cases[case_id].status = new_status]

_seed_case_documents(type) ==
    LET checklist == CASE_CHECKLIST[type]
    IN [d \in {checklist[k][1] : k \in Indices(checklist)} |->
            [required |-> \E k \in Indices(checklist) :
                              checklist[k][1] = d /\ checklist[k][2],
             status |-> "MISSING"]]

_add_years(base, years) == base + (years * DaysPerYear)

_ensure_resolution_pdf(s, case_id, day) ==
    LET numbered == IF s.cases[case_id].resolution_number = NULL
                    THEN [s EXCEPT !.cases[case_id].resolution_number =
                                        _next_resolution_number(s, YearOf(day))]
                    ELSE s
    IN [numbered EXCEPT !.cases[case_id].resolution_pdf_path = TRUE]

\* active_owner, beneficiary: the rows the two "active" queries returned
create_ownership_case(s, day, p, active_owner, beneficiary) ==
    IF ~contract_by_id(s, p.contract_id) THEN Raise(s, "Contrato no encontrado")
    ELSE IF p.type \notin OwnershipTransferType THEN Raise(s, "Tipo de transmision invalido")
    ELSE IF p.type = "MORTIS_CAUSA_CON_BENEFICIARIO" /\ beneficiary = NULL
        THEN Raise(s, "beneficiary_required")
    ELSE
        LET id == Len(s.cases) + 1
            provisional_start == IF p.provisional_start_date = NULL THEN day
                                 ELSE p.provisional_start_date
            anterior == IF active_owner # NULL
                        THEN <<[role |-> "ANTERIOR_TITULAR",
                                person_id |-> s.ownership[active_owner].person_id]>>
                        ELSE <<>>
            nuevo == IF p.type = "MORTIS_CAUSA_CON_BENEFICIARIO"
                     THEN <<[role |-> "NUEVO_TITULAR",
                             person_id |-> s.beneficiarios[beneficiary].person_id]>>
                     ELSE <<>>
            case == [org_id |-> org_id(s),
                     contract_id |-> p.contract_id, type |-> p.type, status |-> "DRAFT",
                     case_number |-> _next_transfer_number(s, YearOf(day)),
                     resolution_number |-> NULL, resolution_pdf_path |-> FALSE,
                     rejection_reason |-> NONE, closed_at |-> NULL,
                     beneficiary_close_decision |-> NONE,
                     provisional_start_date |->
                        IF p.type = "PROVISIONAL" THEN provisional_start ELSE NULL,
                     provisional_until |->
                        IF p.type = "PROVISIONAL" THEN _add_years(provisional_start, 10) ELSE NULL,
                     documents |-> _seed_case_documents(p.type),
                     parties |-> anterior \o nuevo,
                     publications |-> <<>>]
            s1 == [s EXCEPT !.cases = Append(@, case)]
        IN Ok(_log_contract_event(
                  _log_case_movement(s1, p.contract_id, "INICIO_TRANSMISION"),
                  p.contract_id, id, "INICIO_TRANSMISION"),
              id)

add_case_party(s, case_id, role, person_id) ==
    IF ~_get_case_or_404(s, case_id) THEN Raise(s, "Caso no encontrado")
    ELSE IF role \notin OwnershipPartyRole THEN Raise(s, "Rol de parte invalido")
    ELSE IF ~_person_by_org(s, person_id) THEN Raise(s, "Persona no encontrada")
    ELSE
        LET NotRole(party) == party.role # role
            kept == IF role # "OTRO" THEN SelectSeq(s.cases[case_id].parties, NotRole)
                    ELSE s.cases[case_id].parties
        IN Ok([s EXCEPT !.cases[case_id].parties =
                    Append(kept, [role |-> role, person_id |-> person_id])],
              case_id)

\* channel "" stands for a missing channel
add_case_publication(s, case_id, channel) ==
    IF ~_get_case_or_404(s, case_id) THEN Raise(s, "Caso no encontrado")
    ELSE IF s.cases[case_id].type # "PROVISIONAL" THEN Raise(s, "Solo provisionales")
    ELSE IF channel = "" THEN Raise(s, "Canal obligatorio")
    ELSE Ok([s EXCEPT !.cases[case_id].publications = Append(@, Upper(channel))], case_id)

upload_case_document(s, case_id, doc, has_file) ==
    IF ~_get_case_or_404(s, case_id) THEN Raise(s, "Caso no encontrado")
    ELSE IF doc \notin DocTypes(s.cases[case_id]) THEN Raise(s, "Documento no encontrado")
    ELSE IF ~has_file THEN Raise(s, "Debes seleccionar un fichero")
    ELSE Ok(_log_contract_event(
                _log_case_movement(
                    [s EXCEPT !.cases[case_id].documents[doc].status = "PROVIDED"],
                    s.cases[case_id].contract_id, "DOCUMENTO_SUBIDO"),
                s.cases[case_id].contract_id, case_id, "DOCUMENTO_SUBIDO"),
            case_id)

verify_case_document(s, case_id, doc, action) ==
    IF ~_get_case_or_404(s, case_id) THEN Raise(s, "Caso no encontrado")
    ELSE IF doc \notin DocTypes(s.cases[case_id]) THEN Raise(s, "Documento no encontrado")
    ELSE IF action \notin {"verify", "reject"} THEN Raise(s, "Accion invalida")
    ELSE Ok([s EXCEPT !.cases[case_id].documents[doc].status =
                    IF action = "verify" THEN "VERIFIED" ELSE "REJECTED"],
            case_id)

change_ownership_case_status(s, case_id, new_status_raw) ==
    IF ~_get_case_or_404(s, case_id) THEN Raise(s, "Caso no encontrado")
    ELSE IF new_status_raw \notin OwnershipTransferStatus THEN Raise(s, "Estado de caso invalido")
    ELSE IF ~_transition_allowed(s.cases[case_id], new_status_raw)
        THEN Raise(s, "Transicion invalida")
    ELSE Ok(_transition_case_status(s, case_id, new_status_raw), case_id)

approve_ownership_case(s, day, case_id) ==
    IF ~_get_case_or_404(s, case_id) THEN Raise(s, "Caso no encontrado")
    ELSE IF ~_transition_allowed(s.cases[case_id], "APPROVED") THEN Raise(s, "Transicion invalida")
    ELSE Ok(_log_contract_event(
                _log_case_movement(
                    _ensure_resolution_pdf(
                        _transition_case_status(s, case_id, "APPROVED"), case_id, day),
                    s.cases[case_id].contract_id, "APROBACION"),
                s.cases[case_id].contract_id, case_id, "APROBACION"),
            case_id)

\* the status is assigned before the reason is checked
reject_ownership_case(s, case_id, reason) ==
    IF ~_get_case_or_404(s, case_id) THEN Raise(s, "Caso no encontrado")
    ELSE IF ~_transition_allowed(s.cases[case_id], "REJECTED") THEN Raise(s, "Transicion invalida")
    ELSE
        LET s1 == [_transition_case_status(s, case_id, "REJECTED")
                        EXCEPT !.cases[case_id].rejection_reason = reason]
        IN IF reason = "" THEN Raise(s1, "Motivo de rechazo obligatorio")
           ELSE Ok(_log_contract_event(
                       _log_case_movement(s1, s.cases[case_id].contract_id, "RECHAZO"),
                       s.cases[case_id].contract_id, case_id, "RECHAZO"),
                   case_id)

\* the error _validate_case_ready_to_close raises, "" when the case may close
_validate_case_ready_to_close(case, p) ==
    IF case.status # "APPROVED" THEN "Solo APPROVED"
    ELSE IF pending_required(case) # {} THEN "Faltan documentos obligatorios verificados"
    ELSE IF _case_party(case, "NUEVO_TITULAR") = NULL THEN "Debes informar NUEVO_TITULAR"
    ELSE IF /\ case.type = "PROVISIONAL"
            /\ ~(/\ \E k \in Indices(case.publications) : case.publications[k] = "BOP"
                 /\ \E k \in Indices(case.publications) : case.publications[k] # "BOP")
        THEN "Requiere publicacion en BOP y en otro canal"
    ELSE IF /\ p.beneficiary_close_decision = "REPLACE"
            /\ \E d \in BENEFICIARY_REPLACE_REQUIRED_DOC_TYPES :
                    d \notin DocTypes(case) \/ case.documents[d].status # "VERIFIED"
        THEN "beneficiary_replace_docs_missing"
    ELSE IF /\ case.type = "INTER_VIVOS"
            /\ ("ACREDITACION_PARENTESCO_2_GRADO" \notin DocTypes(case)
                \/ case.documents["ACREDITACION_PARENTESCO_2_GRADO"].status # "VERIFIED")
        THEN "intervivos_requires_second_degree_doc"
    ELSE ""

\* close_ownership_case from the status change on, the case being ready to close
_apply_close(s, day, case_id, p, previous_owner, active_beneficiary) ==
    LET case == s.cases[case_id]
        s1 == _transition_case_status(s, case_id, "CLOSED")
        s2 == IF previous_owner # NULL
              THEN [s1 EXCEPT !.ownership[previous_owner].end_date = day]
              ELSE s1
        s3 == [s2 EXCEPT !.ownership = Append(@,
                    [org_id |-> org_id(s),
                     contract_id |-> case.contract_id,
                     person_id |-> _case_party(case, "NUEVO_TITULAR"),
                     start_date |-> day, end_date |-> NULL,
                     is_pensioner |-> p.is_pensioner,
                     pensioner_since_date |-> p.pensioner_since_date,
                     is_provisional |-> case.type = "PROVISIONAL",
                     provisional_until |->
                        IF case.type = "PROVISIONAL" THEN case.provisional_until ELSE NULL])]
        decision == p.beneficiary_close_decision
        s4 == IF decision = "" THEN s3
              ELSE [s3 EXCEPT !.cases[case_id].beneficiary_close_decision = decision]
        s5 == IF decision # "REPLACE" THEN s4
              ELSE LET ended == IF active_beneficiary # NULL
                                THEN [s4 EXCEPT !.beneficiarios[active_beneficiary].activo_hasta = day]
                                ELSE s4
                   IN [ended EXCEPT !.beneficiarios = Append(@,
                            [org_id |-> org_id(s),
                             contrato_id |-> case.contract_id,
                             person_id |-> p.beneficiary_person_id,
                             activo_desde |-> day, activo_hasta |-> NULL])]
        s6 == [s5 EXCEPT !.cases[case_id].closed_at = day]
        s7 == IF ~s6.cases[case_id].resolution_pdf_path
              THEN _ensure_resolution_pdf(s6, case_id, day)
              ELSE s6
    IN \* the query for the active beneficiary flushes the two ownership rows
       IF ~(UqOwnershipCurrent(s3) /\ CkOwnershipDates(s3)) THEN Raise(s3, "IntegrityError")
       ELSE IF active_beneficiary # NULL /\ decision = ""
            THEN Raise(s3, "Debes indicar si mantienes o sustituyes beneficiario")
       ELSE IF decision # "" /\ decision \notin BeneficiaryCloseDecision
            THEN Raise(s3, "Decision de beneficiario invalida")
       ELSE IF decision = "REPLACE" /\ ~_person_by_org(s, p.beneficiary_person_id)
            THEN Raise(s4, "Beneficiario no encontrada")
       ELSE Ok(_log_contract_event(
                   _log_case_movement(s7, case.contract_id, "CAMBIO_TITULARIDAD"),
                   case.contract_id, case_id, "CAMBIO_TITULARIDAD"),
               case_id)

\* previous_owner, active_beneficiary: the rows the two "active" queries returned
close_ownership_case(s, day, case_id, p, previous_owner, active_beneficiary) ==
    IF ~_get_case_or_404(s, case_id) THEN Raise(s, "Caso no encontrado")
    ELSE
        LET case == s.cases[case_id]
            preload == /\ case.type = "MORTIS_CAUSA_CON_BENEFICIARIO"
                       /\ _case_party(case, "NUEVO_TITULAR") = NULL
            s1 == IF preload /\ active_beneficiary # NULL
                  THEN [s EXCEPT !.cases[case_id].parties = Append(@,
                            [role |-> "NUEVO_TITULAR",
                             person_id |-> s.beneficiarios[active_beneficiary].person_id])]
                  ELSE s
            error == _validate_case_ready_to_close(s1.cases[case_id], p)
        IN IF preload /\ active_beneficiary = NULL THEN Raise(s, "beneficiary_required")
           ELSE IF error # "" THEN Raise(s1, error)
           ELSE _apply_close(s1, day, case_id, p, previous_owner, active_beneficiary)

---------------------------------------------------------------------------
(* Maintenance-fee tickets, invoices and payments.  Amounts are in cents,
   percentages in hundredths of a percent. *)

TicketEstado == {"PENDIENTE", "FACTURADO", "COBRADO"}

\* Organization.pensionista_discount_pct, 10.00 by default
pensionista_discount_pct == 1000

\* Decimal.quantize(Decimal("0.01")) of n / d, d > 0: ROUND_HALF_EVEN (\div
\* rounds down and % is not negative, also for n < 0)
QuantizeHalfEven(n, d) ==
    LET q == n \div d
        r == n % d
    IN IF 2 * r < d THEN q
       ELSE IF 2 * r > d THEN q + 1
       ELSE IF q % 2 = 0 THEN q ELSE q + 1

_apply_discount(amount, discount_pct) ==
    QuantizeHalfEven(amount * (10000 - discount_pct), 10000)

_active_titular_for_contract_on(s, contract_id, reference_date) ==
    LET rows == {i \in Indices(s.ownership) :
                    /\ s.ownership[i].org_id = org_id(s)
                    /\ s.ownership[i].contract_id = contract_id
                    /\ s.ownership[i].start_date <= reference_date
                    /\ (s.ownership[i].end_date = NULL
                            \/ s.ownership[i].end_date >= reference_date)}
        top == MaxOf({s.ownership[i].start_date : i \in rows})
    IN IF rows = {} THEN {NULL} ELSE {i \in rows : s.ownership[i].start_date = top}

\* the query without its conditions on the type of the contract and the grave
ContractsToBillOfAnyType(s, year) ==
    {k \in Indices(s.contratos) :
        /\ s.contratos[k].org_id = org_id(s)
        /\ s.contratos[k].estado = "ACTIVO"
        /\ s.contratos[k].fecha_inicio <= Jan1(year)
        /\ s.contratos[k].fecha_fin >= Jan1(year)}

\* the contracts the query of generate_maintenance_tickets_for_year selects
ContractsToBill(s, year) ==
    {k \in Indices(s.contratos) :
        /\ s.contratos[k].org_id = org_id(s)
        /\ s.contratos[k].estado = "ACTIVO"
        /\ s.contratos[k].tipo = "CONCESION"
        /\ s.contratos[k].fecha_inicio <= Jan1(year)
        /\ s.contratos[k].fecha_fin >= Jan1(year)
        /\ s.sepulturas[s.contratos[k].sepultura_id].estado # "PROPIA"}

\* a lookup of the ticket that finds none
existing_ticket_never(s, contract_id, year) == FALSE

\* `existing`: the contract has a ticket of the year
existing_ticket(s, contract_id, year) ==
    \E i \in Indices(s.tickets) :
        /\ s.tickets[i].org_id = org_id(s)
        /\ s.tickets[i].contrato_id = contract_id
        /\ s.tickets[i].anio = year

\* the loop over the selected contracts, in id order, from contract k on;
\* titular[k] is the row _active_titular_for_contract_on returned for contract k
RECURSIVE TicketsForContracts(_, _, _, _, _)
TicketsForContracts(s, year, k, titular, result) ==
    IF k > Len(s.contratos) THEN Ok(s, result)
    ELSE IF k \notin ContractsToBill(s, year)
        THEN TicketsForContracts(s, year, k + 1, titular, result)
    ELSE IF existing_ticket(s, k, year)
        THEN TicketsForContracts(s, year, k + 1, titular,
                                 [result EXCEPT !.existing = @ + 1])
    ELSE
        LET apply_pensionista ==
                /\ titular[k] # NULL
                /\ s.ownership[titular[k]].is_pensioner
                /\ s.ownership[titular[k]].pensioner_since_date # NULL
                /\ year >= YearOf(s.ownership[titular[k]].pensioner_since_date)
            base_amount == s.contratos[k].annual_fee_amount
            ticket == [org_id |-> org_id(s), contrato_id |-> k, anio |-> year,
                       importe |-> IF apply_pensionista
                                   THEN _apply_discount(base_amount, pensionista_discount_pct)
                                   ELSE base_amount,
                       descuento_tipo |-> IF apply_pensionista THEN "PENSIONISTA" ELSE "NONE",
                       estado |-> "PENDIENTE", invoice_id |-> NULL]
        IN TicketsForContracts([s EXCEPT !.tickets = Append(@, ticket)], year, k + 1,
                               titular, [result EXCEPT !.created = @ + 1])

generate_maintenance_tickets_for_year(s, year, titular) ==
    TicketsForContracts(s, year, 1, titular, [created |-> 0, existing |-> 0])

\* the service without its check of the date
set_contract_holder_pensioner_any_date(s, day, contract_id, since_date_raw, allow_retroactive, titular) ==
    IF ~contract_by_id(s, contract_id) THEN Raise(s, "Contrato no encontrado")
    ELSE IF titular = NULL THEN Raise(s, "No hay titular activo")
    ELSE
        LET since_date == IF since_date_raw = NULL THEN day ELSE since_date_raw
        IN Ok(_log_contract_event(
                  _log_case_movement(
                      [s EXCEPT !.ownership[titular].is_pensioner = TRUE,
                                !.ownership[titular].pensioner_since_date = since_date],
                      contract_id, "PENSIONISTA"),
                  contract_id, NULL, "PENSIONISTA"),
              titular)

set_contract_holder_pensioner(s, day, contract_id, since_date_raw, allow_retroactive, titular) ==
    IF ~contract_by_id(s, contract_id) THEN Raise(s, "Contrato no encontrado")
    ELSE IF titular = NULL THEN Raise(s, "No hay titular activo")
    ELSE
        LET since_date == IF since_date_raw = NULL THEN day ELSE since_date_raw
            s1 == [s EXCEPT !.ownership[titular].is_pensioner = TRUE,
                            !.ownership[titular].pensioner_since_date = since_date]
        IN IF since_date < day /\ ~allow_retroactive THEN Raise(s, "No retroactivo por defecto")
           ELSE Ok(_log_contract_event(_log_case_movement(s1, contract_id, "PENSIONISTA"),
                                       contract_id, NULL, "PENSIONISTA"),
                   titular)

\* the state change without its two restrictions
change_sepultura_state_unrestricted(s, sepultura_id, new_state) ==
    IF ~sepultura_by_id(s, sepultura_id) THEN Raise(s, "Sepultura no encontrada")
    ELSE IF new_state \notin SepulturaEstado THEN Raise(s, "Estado invalido")
    ELSE IF s.sepulturas[sepultura_id].estado = new_state THEN Ok(s, NULL)
    ELSE Ok(AddMov([s EXCEPT !.sepulturas[sepultura_id].estado = new_state],
                   sepultura_id, "CAMBIO_ESTADO"),
            NULL)

\* with sepultura_after_update: a CAMBIO_ESTADO movement when the state changed
change_sepultura_state(s, sepultura_id, new_state) ==
    IF ~sepultura_by_id(s, sepultura_id) THEN Raise(s, "Sepultura no encontrada")
    ELSE IF new_state \notin SepulturaEstado THEN Raise(s, "Estado invalido")
    ELSE IF new_state = "OCUPADA" THEN Raise(s, "Ocupada se asigna al crear contrato")
    ELSE IF s.sepulturas[sepultura_id].estado = "OCUPADA" /\ new_state = "LLIURE"
        THEN Raise(s, "No se puede pasar de Ocupada a Lliure")
    ELSE IF s.sepulturas[sepultura_id].estado = "PROPIA" /\ new_state = "OCUPADA"
        THEN Raise(s, "Una sepultura Propia no puede contratarse")
    ELSE IF s.sepulturas[sepultura_id].estado = new_state THEN Ok(s, NULL)
    ELSE Ok(AddMov([s EXCEPT !.sepulturas[sepultura_id].estado = new_state],
                   sepultura_id, "CAMBIO_ESTADO"),
            NULL)

\* pending_tickets of sepultura_tickets_and_invoices
pending_tickets(s, contract_id) ==
    {i \in Indices(s.tickets) :
        /\ s.tickets[i].org_id = org_id(s)
        /\ s.tickets[i].contrato_id = contract_id
        /\ s.tickets[i].estado = "PENDIENTE"}

\* a validation that only refuses the empty selection
validate_selection_not_empty(s, ticket_ids, selected_ids) ==
    IF selected_ids = {} THEN "Selecciona al menos un ano" ELSE ""

\* the error validate_oldest_prefix_selection raises, "" when the selection is
\* the tickets at the head of the list ordered by year
validate_oldest_prefix_selection(s, ticket_ids, selected_ids) ==
    LET prefix == {i \in ticket_ids :
                      \A j \in ticket_ids :
                          s.tickets[j].anio <= s.tickets[i].anio => j \in selected_ids}
    IN IF selected_ids = {} THEN "Selecciona al menos un ano"
       ELSE IF selected_ids # prefix THEN "Debes cobrar empezando por el ano pendiente mas antiguo"
       ELSE ""

_next_invoice_number(s, year) == Number(year, CountLike(s, s.invoices, "numero", year) + 1)

_next_receipt_number(s, year) ==
    Number(year, CountLike(s, s.payments, "receipt_number", year) + 1)

\* the query without its filter on the selected ids
_all_pending_tickets(s, contract_id, selected_ids) == pending_tickets(s, contract_id)

_selected_pending_tickets(s, contract_id, selected_ids) ==
    pending_tickets(s, contract_id) \cap selected_ids

\* <<amount, descuento_tipo>>
_ticket_amount_with_discount(s, ticket_id, contract_id, titularidad, discount_ticket_ids, discount_pct) ==
    LET base_amount == IF s.contratos[contract_id].annual_fee_amount <= 0
                       THEN s.tickets[ticket_id].importe
                       ELSE s.contratos[contract_id].annual_fee_amount
    IN IF \/ titularidad = NULL
          \/ ~s.ownership[titularidad].is_pensioner
          \/ s.ownership[titularidad].pensioner_since_date = NULL
       THEN <<base_amount, "NONE">>
       ELSE IF \/ s.tickets[ticket_id].anio >= YearOf(s.ownership[titularidad].pensioner_since_date)
               \/ ticket_id \in discount_ticket_ids
       THEN <<_apply_discount(base_amount, discount_pct), "PENSIONISTA">>
       ELSE <<base_amount, "NONE">>

RECURSIVE SumOver(_, _)
SumOver(f, S) == IF S = {} THEN 0 ELSE LET x == CHOOSE y \in S : TRUE IN f[x] + SumOver(f, S \ {x})

\* titularidad: the row active_titular_for_contract returned
collect_tickets(s, day, sepultura_id, selected_ids, discount_ticket_ids, titularidad) ==
    IF ~sepultura_by_id(s, sepultura_id) THEN Raise(s, "Sepultura no encontrada")
    ELSE IF active_contract_for_sepultura(s, sepultura_id) = NULL
        THEN Raise(s, "La sepultura no tiene contrato activo")
    ELSE IF s.sepulturas[sepultura_id].estado = "PROPIA"
        THEN Raise(s, "Las sepulturas Propia no generan tiquets")
    ELSE
        LET contrato == active_contract_for_sepultura(s, sepultura_id)
            selected == _selected_pending_tickets(s, contrato, selected_ids)
            error == validate_oldest_prefix_selection(s, pending_tickets(s, contrato), selected_ids)
            priced == [i \in selected |->
                        _ticket_amount_with_discount(s, i, contrato, titularidad,
                                                     discount_ticket_ids, pensionista_discount_pct)]
            total == SumOver([i \in selected |-> priced[i][1]], selected)
            invoice_id == Len(s.invoices) + 1
            invoice == [org_id |-> org_id(s),
                        contrato_id |-> contrato, sepultura_id |-> sepultura_id,
                        numero |-> _next_invoice_number(s, YearOf(day)),
                        estado |-> "PAGADA", total_amount |-> total]
            payment == [org_id |-> org_id(s), invoice_id |-> invoice_id, amount |-> total,
                        receipt_number |-> _next_receipt_number(s, YearOf(day))]
            s1 == [s EXCEPT
                     !.tickets = [i \in Indices(s.tickets) |->
                                    IF i \in selected
                                    THEN [s.tickets[i] EXCEPT !.importe = priced[i][1],
                                                              !.descuento_tipo = priced[i][2],
                                                              !.estado = "COBRADO",
                                                              !.invoice_id = invoice_id]
                                    ELSE s.tickets[i]],
                     !.invoices = Append(@, invoice),
                     !.payments = Append(@, payment),
                     \* ticket_after_update: one TASAS movement for each ticket
                     !.movs = @ \o [n \in 1..Cardinality(selected) |->
                                      [sepultura_id |-> sepultura_id, tipo |-> "TASAS"]]]
        IN IF error # "" THEN Raise(s, error)
           ELSE Ok(s1, invoice_id)

---------------------------------------------------------------------------
(* Expedientes, work orders, gravestone stock and lateral inscriptions.  A
   field of a payload that is empty or not a number is NULL. *)

\* _log_sepultura_movement: nothing is logged without a grave
_log_sepultura_movement(s, sepultura_id, movement_type) ==
    IF sepultura_id = NULL THEN s ELSE AddMov(s, sepultura_id, movement_type)

\* "C-<year>-<count+1>"
_next_expediente_number(s, year) ==
    Number(year, CountLike(s, s.expedientes, "numero", year) + 1)

expediente_by_id(s, expediente_id) ==
    /\ expediente_id \in Indices(s.expedientes)
    /\ s.expedientes[expediente_id].org_id = org_id(s)

\* active_owner: the row active_titular_for_contract returned for the active
\* contract of the grave; has_prior_remains: the grave has a sepultura_difunto row
create_expediente(s, day, p, active_owner, has_prior_remains) ==
    LET tipo == Upper(p.tipo)
    IN IF tipo = "" THEN Raise(s, "Tipo de expediente obligatorio")
       ELSE IF p.sepultura_id # NULL /\ ~sepultura_by_id(s, p.sepultura_id)
            THEN Raise(s, "Sepultura no encontrada")
       ELSE IF /\ p.sepultura_id # NULL
               /\ tipo \in {"EXHUMACION", "RESCATE"}
               /\ active_owner # NULL
               /\ s.ownership[active_owner].is_provisional
               /\ has_prior_remains
            THEN Raise(s, "validation.expediente.provisional_restriction")
       ELSE IF p.difunto_id # NULL /\ ~_person_by_org(s, p.difunto_id)
            THEN Raise(s, "Difunto no encontrado")
       ELSE IF p.declarante_id # NULL /\ ~_person_by_org(s, p.declarante_id)
            THEN Raise(s, "Declarante no encontrado")
       ELSE
            LET expediente == [org_id |-> org_id(s),
                               numero |-> _next_expediente_number(s, YearOf(day)),
                               tipo |-> tipo, estado |-> "ABIERTO",
                               sepultura_id |-> p.sepultura_id,
                               difunto_id |-> p.difunto_id,
                               declarante_id |-> p.declarante_id]
            IN Ok(_log_sepultura_movement(
                      [s EXCEPT !.expedientes = Append(@, expediente)],
                      p.sepultura_id, "ALTA_EXPEDIENTE"),
                  Len(s.expedientes) + 1)

\* the transition without its check against EXPEDIENTE_TRANSITIONS
transition_expediente_state_unchecked(s, expediente_id, new_state) ==
    IF ~expediente_by_id(s, expediente_id) THEN Raise(s, "Expediente no encontrado")
    ELSE IF Upper(new_state) \notin EXPEDIENTE_STATES
        THEN Raise(s, "Estado de expediente invalido")
    ELSE Ok(_log_sepultura_movement(
                [s EXCEPT !.expedientes[expediente_id].estado = Upper(new_state)],
                s.expedientes[expediente_id].sepultura_id, "CAMBIO_ESTADO_EXPEDIENTE"),
            expediente_id)

transition_expediente_state(s, expediente_id, new_state) ==
    IF ~expediente_by_id(s, expediente_id) THEN Raise(s, "Expediente no encontrado")
    ELSE
        LET current == s.expedientes[expediente_id].estado
            target == Upper(new_state)
        IN IF target \notin EXPEDIENTE_STATES THEN Raise(s, "Estado de expediente invalido")
           ELSE IF target \notin EXPEDIENTE_TRANSITIONS[current]
                THEN Raise(s, "Transicion invalida")
           ELSE Ok(_log_sepultura_movement(
                       [s EXCEPT !.expedientes[expediente_id].estado = target],
                       s.expedientes[expediente_id].sepultura_id, "CAMBIO_ESTADO_EXPEDIENTE"),
                   expediente_id)

create_expediente_ot(s, expediente_id) ==
    IF ~expediente_by_id(s, expediente_id) THEN Raise(s, "Expediente no encontrado")
    ELSE Ok(_log_sepultura_movement(
                [s EXCEPT !.ordenes = Append(@, [org_id |-> org_id(s),
                                                 expediente_id |-> expediente_id,
                                                 estado |-> "PENDIENTE"])],
                s.expedientes[expediente_id].sepultura_id, "OT_EXPEDIENTE"),
            Len(s.ordenes) + 1)

\* OrdenTrabajo.query.filter_by(org_id=org_id(), expediente_id=expediente.id, id=ot_id)
orden_by_id(s, expediente_id, ot_id) ==
    /\ ot_id \in Indices(s.ordenes)
    /\ s.ordenes[ot_id].org_id = org_id(s)
    /\ s.ordenes[ot_id].expediente_id = expediente_id

complete_expediente_ot(s, expediente_id, ot_id) ==
    IF ~expediente_by_id(s, expediente_id) THEN Raise(s, "Expediente no encontrado")
    ELSE IF ~orden_by_id(s, expediente_id, ot_id)
        THEN Raise(s, "Orden de trabajo no encontrada")
    ELSE IF s.ordenes[ot_id].estado = "COMPLETADA" THEN Ok(s, ot_id)
    ELSE Ok(_log_sepultura_movement(
                [s EXCEPT !.ordenes[ot_id].estado = "COMPLETADA"],
                s.expedientes[expediente_id].sepultura_id, "OT_EXPEDIENTE"),
            ot_id)

\* the PDF shows the work order, its expediente and the grave of the expediente
expediente_ot_pdf(s, expediente_id, ot_id) ==
    IF ~expediente_by_id(s, expediente_id) THEN Raise(s, "Expediente no encontrado")
    ELSE IF ~orden_by_id(s, expediente_id, ot_id)
        THEN Raise(s, "Orden de trabajo no encontrada")
    ELSE IF /\ s.expedientes[expediente_id].sepultura_id # NULL
            /\ ~sepultura_by_id(s, s.expedientes[expediente_id].sepultura_id)
        THEN Raise(s, "Sepultura no encontrada")
    ELSE Ok(s, ot_id)

\* The rows .first() may return: the organization's row with the id, else, when a
\* code is given, the organization's rows with exactly that code; {NULL} when
\* there is none.
_find_lapida_stock(s, stock_id_raw, codigo_raw) ==
    LET by_id == {i \in Indices(s.stock) :
                    s.stock[i].org_id = org_id(s) /\ i = stock_id_raw}
        by_code == {i \in Indices(s.stock) :
                        /\ s.stock[i].org_id = org_id(s)
                        /\ codigo_raw # ""
                        /\ s.stock[i].codigo = codigo_raw}
    IN IF by_id # {} THEN by_id ELSE IF by_code # {} THEN by_code ELSE {NULL}

\* the lookup of lapida_stock_entry: as _find_lapida_stock, the code in upper case
find_entry_stock(s, stock_id_raw, codigo_raw) ==
    _find_lapida_stock(s, stock_id_raw, Upper(codigo_raw))

\* found: the row the lookup returned
lapida_stock_entry(s, p, found) ==
    IF p.quantity <= 0 THEN Raise(s, "Cantidad de entrada invalida")
    ELSE IF found = NULL /\ Upper(p.codigo) = "" THEN Raise(s, "Codigo de lapida obligatorio")
    ELSE
        LET s1 == IF found # NULL THEN s
                  ELSE [s EXCEPT !.stock = Append(@, [org_id |-> org_id(s),
                                                      codigo |-> Upper(p.codigo),
                                                      available_qty |-> 0])]
            id == IF found # NULL THEN found ELSE Len(s.stock) + 1
        IN Ok([s1 EXCEPT
                 !.stock[id].available_qty = @ + p.quantity,
                 !.stock_movs = Append(@, [org_id |-> org_id(s), lapida_stock_id |-> id,
                                           movimiento |-> "ENTRADA",
                                           quantity |-> p.quantity,
                                           sepultura_id |-> NULL,
                                           expediente_id |-> NULL])],
              id)

\* the exit without its check of the available quantity
lapida_stock_exit_unchecked(s, p, found) ==
    IF p.quantity <= 0 THEN Raise(s, "Cantidad de salida invalida")
    ELSE IF found = NULL THEN Raise(s, "Stock de lapida no encontrado")
    ELSE IF p.sepultura_id # NULL /\ ~sepultura_by_id(s, p.sepultura_id)
        THEN Raise(s, "Sepultura no encontrada")
    ELSE IF p.expediente_id # NULL /\ ~expediente_by_id(s, p.expediente_id)
        THEN Raise(s, "Expediente no encontrado")
    ELSE Ok(_log_sepultura_movement(
                [s EXCEPT
                   !.stock[found].available_qty = @ - p.quantity,
                   !.stock_movs = Append(@, [org_id |-> org_id(s),
                                             lapida_stock_id |-> found,
                                             movimiento |-> "SALIDA",
                                             quantity |-> p.quantity,
                                             sepultura_id |-> p.sepultura_id,
                                             expediente_id |-> p.expediente_id])],
                p.sepultura_id, "LAPIDA"),
            found)

\* found: the row _find_lapida_stock returned
lapida_stock_exit(s, p, found) ==
    IF p.quantity <= 0 THEN Raise(s, "Cantidad de salida invalida")
    ELSE IF found = NULL THEN Raise(s, "Stock de lapida no encontrado")
    ELSE IF p.quantity > s.stock[found].available_qty THEN Raise(s, "No hay stock suficiente")
    ELSE IF p.sepultura_id # NULL /\ ~sepultura_by_id(s, p.sepultura_id)
        THEN Raise(s, "Sepultura no encontrada")
    ELSE IF p.expediente_id # NULL /\ ~expediente_by_id(s, p.expediente_id)
        THEN Raise(s, "Expediente no encontrado")
    ELSE Ok(_log_sepultura_movement(
                [s EXCEPT
                   !.stock[found].available_qty = @ - p.quantity,
                   !.stock_movs = Append(@, [org_id |-> org_id(s),
                                             lapida_stock_id |-> found,
                                             movimiento |-> "SALIDA",
                                             quantity |-> p.quantity,
                                             sepultura_id |-> p.sepultura_id,
                                             expediente_id |-> p.expediente_id])],
                p.sepultura_id, "LAPIDA"),
            found)

\* texto "" stands for a missing text
create_inscripcion_lateral(s, p) ==
    IF p.sepultura_id = NULL THEN Raise(s, "Sepultura obligatoria")
    ELSE IF ~sepultura_by_id(s, p.sepultura_id) THEN Raise(s, "Sepultura no encontrada")
    ELSE IF p.texto = "" THEN Raise(s, "Texto de inscripcion obligatorio")
    ELSE IF p.expediente_id # NULL /\ ~expediente_by_id(s, p.expediente_id)
        THEN Raise(s, "Expediente no encontrado")
    ELSE Ok(_log_sepultura_movement(
                [s EXCEPT !.inscripciones = Append(@, [org_id |-> org_id(s),
                                                       sepultura_id |-> p.sepultura_id,
                                                       expediente_id |-> p.expediente_id,
                                                       estado |-> "PENDIENTE_GRABAR"])],
                p.sepultura_id, "INSCRIPCION_LATERAL"),
            Len(s.inscripciones) + 1)

inscripcion_by_id(s, inscripcion_id) ==
    /\ inscripcion_id \in Indices(s.inscripciones)
    /\ s.inscripciones[inscripcion_id].org_id = org_id(s)

\* the transition to any known state
transition_inscripcion_estado_any_step(s, inscripcion_id, estado) ==
    IF ~inscripcion_by_id(s, inscripcion_id) THEN Raise(s, "Inscripcion no encontrada")
    ELSE
        LET current == s.inscripciones[inscripcion_id].estado
            target == IF Upper(estado) # "" THEN Upper(estado)
                      ELSE INSCRIPCION_TRANSITIONS(current)
        IN IF target \notin INSCRIPCION_STATES THEN Raise(s, "Estado de inscripcion invalido")
           ELSE Ok(_log_sepultura_movement(
                       [s EXCEPT !.inscripciones[inscripcion_id].estado = target],
                       s.inscripciones[inscripcion_id].sepultura_id, "INSCRIPCION_LATERAL"),
                   inscripcion_id)

\* estado: payload["estado"], "" when the request names no state
transition_inscripcion_estado(s, inscripcion_id, estado) ==
    IF ~inscripcion_by_id(s, inscripcion_id) THEN Raise(s, "Inscripcion no encontrada")
    ELSE
        LET current == s.inscripciones[inscripcion_id].estado
            requested == Upper(estado)
            target == IF requested # "" THEN requested ELSE INSCRIPCION_TRANSITIONS(current)
        IN IF target = "" THEN Raise(s, "Estado de inscripcion invalido")
           ELSE IF target \notin INSCRIPCION_STATES
                THEN Raise(s, "Estado de inscripcion invalido")
           ELSE IF INSCRIPCION_TRANSITIONS(current) # target THEN Raise(s, "Transicion invalida")
           ELSE Ok(_log_sepultura_movement(
                       [s EXCEPT !.inscripciones[inscripcion_id].estado = target],
                       s.inscripciones[inscripcion_id].sepultura_id, "INSCRIPCION_LATERAL"),
                   inscripcion_id)

---------------------------------------------------------------------------
(* Mass creation of graves.  A range "desde-hasta" is the sequence of the
   integers its text splits into. *)

\* the error parse_range raises, "" when the range is accepted
parse_range(value) ==
    IF Len(value) # 2 THEN "Formato de rango invalido"
    ELSE IF value[1] <= 0 \/ value[2] < value[1] THEN "Rango invalido"
    ELSE ""

\* the (fila, columna) pairs of the two nested loops, in their order
MassPositions(filas, columnas) ==
    LET width == (columnas[2] - columnas[1]) + 1
        total == ((filas[2] - filas[1]) + 1) * width
    IN [k \in 1..total |-> <<filas[1] + ((k - 1) \div width), columnas[1] + ((k - 1) % width)>>]

\* Sepultura.query.filter_by(org_id=, cemetery_id=, bloque=, fila=, columna=, numero=)
exists(s, bloque, fila, columna, numero) ==
    \E i \in DOMAIN s.sepulturas :
        /\ s.sepulturas[i].org_id = org_id(s)
        /\ s.sepulturas[i].bloque = bloque
        /\ s.sepulturas[i].fila = fila
        /\ s.sepulturas[i].columna = columna
        /\ s.sepulturas[i].numero = numero

\* the loop from its k-th position on; the result is the session and the count
RECURSIVE MassLoop(_, _, _, _, _)
MassLoop(s, p, positions, k, created) ==
    IF k > Len(positions) THEN [s |-> s, created |-> created]
    ELSE LET fila == positions[k][1]
             col == positions[k][2]
             numero == ((fila - p.filas[1]) * ((p.columnas[2] - p.columnas[1]) + 1)) + col
         IN IF exists(s, p.bloque, fila, col, numero)
            THEN MassLoop(s, p, positions, k + 1, created)
            ELSE MassLoop([s EXCEPT !.sepulturas = Append(@,
                              [org_id |-> org_id(s), estado |-> "LLIURE",
                               bloque |-> p.bloque, fila |-> fila,
                               columna |-> col, numero |-> numero])],
                          p, positions, k + 1, created + 1)

create_mass_sepulturas(s, p) ==
    IF parse_range(p.filas) # "" THEN Raise(s, parse_range(p.filas))
    ELSE IF parse_range(p.columnas) # "" THEN Raise(s, parse_range(p.columnas))
    ELSE LET done == MassLoop(s, p, MassPositions(p.filas, p.columnas), 1, 0)
         IN Ok(done.s, done.created)

---------------------------------------------------------------------------
(* Requests *)

\* no collect_tickets request is in flight
NoWorkers == <<>>

NoRequest == [op |-> "none", id |-> NULL, selected |-> {}, discount |-> {},
              ok |-> TRUE, err |-> "", ret |-> NULL,
              created |-> 0, existing |-> 0,
              movs |-> <<>>, events |-> <<>>]

\* db.session.commit(): the flush fails when a constraint of the schema is violated
Committed(r) == r.ok /\ Integrity(r.s)

\* a request end that keeps what the service left in its session
TeardownWithoutRollback(r) == IF Integrity(r.s) THEN r.s ELSE DB

\* The database after the request: the session when the service committed, the
\* database as it was when the service raised (the route reports the error and
\* the session is removed, uncommitted, when the request ends).
Teardown(r) == IF Committed(r) THEN r.s ELSE DB

\* `id` is the grave, contract, case or year the request names, `selected` and
\* `discount` the ticket ids it posts (selected_ids, discount_ticket_ids)
RequestWith(op, id, selected, discount, r) ==
    LET after == Teardown(r)
        \* the service returns a TicketGenerationResult
        counts == op = "generate_maintenance_tickets_for_year"
    IN /\ sepulturas' = after.sepulturas
       /\ contratos' = after.contratos
       /\ ownership' = after.ownership
       /\ beneficiarios' = after.beneficiarios
       /\ cases' = after.cases
       /\ tickets' = after.tickets
       /\ invoices' = after.invoices
       /\ payments' = after.payments
       /\ expedientes' = after.expedientes
       /\ ordenes' = after.ordenes
       /\ stock' = after.stock
       /\ stock_movs' = after.stock_movs
       /\ inscripciones' = after.inscripciones
       /\ last' = [op |-> op, id |-> id, selected |-> selected, discount |-> discount,
                   ok |-> Committed(r),
                   err |-> IF r.ok /\ ~Integrity(r.s) THEN "IntegrityError" ELSE r.err,
                   ret |-> IF Committed(r) /\ ~counts THEN r.ret ELSE NULL,
                   created |-> IF Committed(r) /\ counts THEN r.ret.created ELSE 0,
                   existing |-> IF Committed(r) /\ counts THEN r.ret.existing ELSE 0,
                   movs |-> after.movs, events |-> after.events]
       /\ UNCHANGED <<today, current_user, workers>>

RequestOf(op, id, selected, r) == RequestWith(op, id, selected, {}, r)

Request(op, id, r) == RequestOf(op, id, {}, r)

AdvanceDay ==
    /\ today < MaxDay
    /\ today' = today + 1
    /\ last' = NoRequest
    /\ UNCHANGED <<current_user, tables, workers>>

---------------------------------------------------------------------------
(* One action per service *)

CreateFuneralRightContract(sepultura_id, p) ==
    /\ Len(contratos) < MaxContratos
    /\ Len(ownership) < MaxOwnership
    /\ Len(beneficiarios) < MaxBeneficiarios
    /\ Request("create_funeral_right_contract", sepultura_id,
               create_funeral_right_contract(DB, sepultura_id, p))

NominateContractBeneficiary(contract_id, person_id) ==
    /\ Len(beneficiarios) < MaxBeneficiarios
    /\ \E active \in active_beneficiario_for_contract(DB, contract_id, today) :
          Request("nominate_contract_beneficiary", contract_id,
                  nominate_contract_beneficiary(DB, today, contract_id, person_id, active))

RemoveContractBeneficiary(contract_id, end_date) ==
    Request("remove_contract_beneficiary", contract_id,
            remove_contract_beneficiary(DB, today, contract_id, end_date))

CreateOwnershipCase(p) ==
    /\ Len(cases) < MaxCases
    /\ \E active_owner \in active_titular_for_contract(DB, p.contract_id, today) :
       \E beneficiary \in active_beneficiario_for_contract(DB, p.contract_id, today) :
          Request("create_ownership_case", p.contract_id,
                  create_ownership_case(DB, today, p, active_owner, beneficiary))

AddCaseParty(case_id, role, person_id) ==
    /\ (case_id \in Indices(cases) /\ role = "OTRO") => Len(cases[case_id].parties) < MaxParties
    /\ Request("add_case_party", case_id,
               add_case_party(DB, case_id, role, person_id))

AddCasePublication(case_id, channel) ==
    /\ case_id \in Indices(cases) => Len(cases[case_id].publications) < MaxPublications
    /\ Request("add_case_publication", case_id,
               add_case_publication(DB, case_id, channel))

UploadCaseDocument(case_id, doc, has_file) ==
    Request("upload_case_document", case_id,
            upload_case_document(DB, case_id, doc, has_file))

VerifyCaseDocument(case_id, doc, action) ==
    Request("verify_case_document", case_id,
            verify_case_document(DB, case_id, doc, action))

ChangeOwnershipCaseStatus(case_id, new_status) ==
    Request("change_ownership_case_status", case_id,
            change_ownership_case_status(DB, case_id, new_status))

ApproveOwnershipCase(case_id) ==
    Request("approve_ownership_case", case_id,
            approve_ownership_case(DB, today, case_id))

RejectOwnershipCase(case_id, reason) ==
    Request("reject_ownership_case", case_id,
            reject_ownership_case(DB, case_id, reason))

CloseOwnershipCase(case_id, p) ==
    /\ Len(ownership) < MaxOwnership
    /\ Len(beneficiarios) < MaxBeneficiarios
    /\ LET contract_id == IF case_id \in Indices(cases) THEN cases[case_id].contract_id ELSE NULL
       IN \E previous_owner \in active_titular_for_contract(DB, contract_id, today) :
          \E active_beneficiary \in active_beneficiario_for_contract(DB, contract_id, today) :
             Request("close_ownership_case", case_id,
                     close_ownership_case(DB, today, case_id, p, previous_owner, active_beneficiary))

AssignContractField(contract_id, _key, value) ==
    Request("assign_contract_field", contract_id,
            assign_contract_field(DB, contract_id, _key, value))

\* titular[k]: the holder of contract k on 1 January that the query returns
GenerateMaintenanceTicketsForYear(year) ==
    \E titular \in [Indices(contratos) -> Indices(ownership) \cup {NULL}] :
        /\ \A k \in Indices(contratos) :
              titular[k] \in _active_titular_for_contract_on(DB, k, Jan1(year))
        /\ Request("generate_maintenance_tickets_for_year", year,
                   generate_maintenance_tickets_for_year(DB, year, titular))

SetContractHolderPensioner(contract_id, since_date, allow_retroactive) ==
    \E titular \in active_titular_for_contract(DB, contract_id, today) :
        Request("set_contract_holder_pensioner", contract_id,
                set_contract_holder_pensioner(DB, today, contract_id, since_date,
                                              allow_retroactive, titular))

ChangeSepulturaState(sepultura_id, new_state) ==
    Request("change_sepultura_state", sepultura_id,
            change_sepultura_state(DB, sepultura_id, new_state))

CollectTickets(sepultura_id, selected_ids, discount_ticket_ids) ==
    \E titularidad \in active_titular_for_contract(
                            DB, active_contract_for_sepultura(DB, sepultura_id), today) :
        RequestWith("collect_tickets", sepultura_id, selected_ids, discount_ticket_ids,
                    collect_tickets(DB, today, sepultura_id, selected_ids, discount_ticket_ids,
                                    titularidad))

\* The grave of an expediente of type EXHUMACION or RESCATE is checked against
\* its active holder.
CreateExpediente(p) ==
    /\ Len(expedientes) < MaxExpedientes
    /\ \E active_owner \in active_titular_for_contract(
                              DB, active_contract_for_sepultura(DB, p.sepultura_id), today),
          has_prior_remains \in BOOLEAN :
          Request("create_expediente", p.sepultura_id,
                  create_expediente(DB, today, p, active_owner, has_prior_remains))

TransitionExpedienteState(expediente_id, new_state) ==
    Request("transition_expediente_state", expediente_id,
            transition_expediente_state(DB, expediente_id, new_state))

CreateExpedienteOt(expediente_id) ==
    /\ Len(ordenes) < MaxOrdenes
    /\ Request("create_expediente_ot", expediente_id,
               create_expediente_ot(DB, expediente_id))

CompleteExpedienteOt(expediente_id, ot_id) ==
    Request("complete_expediente_ot", expediente_id,
            complete_expediente_ot(DB, expediente_id, ot_id))

ExpedienteOtPdf(expediente_id, ot_id) ==
    Request("expediente_ot_pdf", expediente_id,
            expediente_ot_pdf(DB, expediente_id, ot_id))

LapidaStockEntry(p) ==
    /\ Len(stock_movs) < MaxStockMovs
    /\ \E found \in find_entry_stock(DB, p.stock_id, p.codigo) :
          Request("lapida_stock_entry", p.stock_id, lapida_stock_entry(DB, p, found))

LapidaStockExit(p) ==
    /\ Len(stock_movs) < MaxStockMovs
    /\ \E found \in _find_lapida_stock(DB, p.stock_id, p.codigo) :
          Request("lapida_stock_exit", p.stock_id, lapida_stock_exit(DB, p, found))

CreateInscripcionLateral(p) ==
    /\ Len(inscripciones) < MaxInscripciones
    /\ Request("create_inscripcion_lateral", p.sepultura_id,
               create_inscripcion_lateral(DB, p))

TransitionInscripcionEstado(inscripcion_id, estado) ==
    Request("transition_inscripcion_estado", inscripcion_id,
            transition_inscripcion_estado(DB, inscripcion_id, estado))

FuneralRightTitlePdf(contract_id) ==
    Request("funeral_right_title_pdf", contract_id,
            funeral_right_title_pdf(DB, contract_id))

OwnershipCaseDetail(case_id) ==
    Request("ownership_case_detail", case_id, ownership_case_detail(DB, case_id))

\* the graves the run may add fit the table of the model
CreateMassSepulturas(p) ==
    /\ (parse_range(p.filas) = "" /\ parse_range(p.columnas) = "")
            => Len(sepulturas) + Len(MassPositions(p.filas, p.columnas)) <= MaxGraves
    /\ Request("create_mass_sepulturas", NULL, create_mass_sepulturas(DB, p))

\* login_user(user): the requests that follow run in the organization of `user`
Login(user) ==
    /\ current_user' = user
    /\ last' = NoRequest
    /\ UNCHANGED <<today, tables, workers>>

---------------------------------------------------------------------------
(* Initial databases, built with the services themselves *)

\* every grave belongs to organization 1, whose user is logged in
EmptyDB ==
    [org |-> load_tenant_context(1),
     sepulturas |-> [g \in Sepulturas |-> [org_id |-> 1, estado |-> "DISPONIBLE",
                                            bloque |-> "B-12", fila |-> 1,
                                            columna |-> g, numero |-> g]],
     contratos |-> <<>>, ownership |-> <<>>, beneficiarios |-> <<>>, cases |-> <<>>,
     tickets |-> <<>>, invoices |-> <<>>, payments |-> <<>>,
     expedientes |-> <<>>, ordenes |-> <<>>, stock |-> <<>>, stock_movs |-> <<>>,
     inscripciones |-> <<>>, movs |-> <<>>, events |-> <<>>]

ContractPayload(tipo, fecha_inicio, fecha_fin, titular, beneficiario) ==
    [tipo |-> tipo, fecha_inicio |-> fecha_inicio, fecha_fin |-> fecha_fin,
     legacy_99_years |-> FALSE, annual_fee_amount |-> 1000,
     titular_person_id |-> titular, beneficiario_person_id |-> beneficiario,
     pensionista |-> FALSE, pensionista_desde |-> NULL]

ClosePayload(decision, person_id) ==
    [beneficiary_close_decision |-> decision, beneficiary_person_id |-> person_id,
     is_pensioner |-> FALSE, pensioner_since_date |-> NULL]

Committing(r) == [r.s EXCEPT !.movs = <<>>, !.events = <<>>]

StartWith(s) ==
    /\ current_user = 1
    /\ workers = NoWorkers
    /\ sepulturas = s.sepulturas
    /\ contratos = s.contratos
    /\ ownership = s.ownership
    /\ beneficiarios = s.beneficiarios
    /\ cases = s.cases
    /\ tickets = s.tickets
    /\ invoices = s.invoices
    /\ payments = s.payments
    /\ expedientes = s.expedientes
    /\ ordenes = s.ordenes
    /\ stock = s.stock
    /\ stock_movs = s.stock_movs
    /\ inscripciones = s.inscripciones
    /\ last = NoRequest

\* one contract on grave 1, held by person 1 since day 1, with or without a beneficiary
OneContract(beneficiario) ==
    Committing(create_funeral_right_contract(
        EmptyDB, 1, ContractPayload("CONCESION", 1, MaxDay + 1, 1, beneficiario)))

---------------------------------------------------------------------------
(* The ownership and beneficiary ledgers: contracts and cases that are ready to close *)

Pick(S) == CHOOSE x \in S : TRUE

RECURSIVE VerifyAll(_, _, _)
VerifyAll(s, case_id, docs) ==
    IF docs = {} THEN s
    ELSE LET d == Pick(docs)
         IN VerifyAll(Committing(verify_case_document(s, case_id, d, "verify")),
                      case_id, docs \ {d})

\* A case of the contract taken through the workflow up to APPROVED, with every
\* document of its checklist verified and `nuevo` as NUEVO_TITULAR.
ReadyCase(s, day, contract_id, type, nuevo) ==
    LET created == create_ownership_case(
                        s, day,
                        [contract_id |-> contract_id, type |-> type,
                         provisional_start_date |-> NULL],
                        Pick(active_titular_for_contract(s, contract_id, day)), NULL)
        id == created.ret
        s1 == Committing(add_case_party(Committing(created), id, "NUEVO_TITULAR", nuevo))
        s2 == VerifyAll(s1, id, DocTypes(s1.cases[id]))
        s3 == Committing(change_ownership_case_status(s2, id, "DOCS_PENDING"))
        s4 == Committing(change_ownership_case_status(s3, id, "UNDER_REVIEW"))
    IN Committing(approve_ownership_case(s4, day, id))

RECURSIVE ReadyCases(_, _, _, _)
ReadyCases(s, day, contract_id, n) ==
    IF n = 0 THEN s
    ELSE ReadyCase(ReadyCases(s, day, contract_id, n - 1), day, contract_id,
                   "MORTIS_CAUSA_TESTAMENTO", ((n - 1) % NumPersons) + 1)

ContractInputs ==
    {ContractPayload(tipo, inicio, MaxDay + 1, titular, NULL) :
        tipo \in {"CONCESION"}, inicio \in 1..(MaxDay + 1), titular \in {2, NoPerson}}

CloseInputs == {ClosePayload(decision, person) :
                    decision \in {"", "KEEP", "REPLACE"}, person \in {1, NoPerson}}

InitLedger ==
    /\ today = 1
    /\ \E beneficiario \in {NULL, 3} :
          StartWith(ReadyCases(OneContract(beneficiario), 1, 1, MaxCases))

NextLedger ==
    \/ AdvanceDay
    \/ \E g \in Sepulturas, p \in ContractInputs : CreateFuneralRightContract(g, p)
    \/ \E c \in 1..MaxCases, p \in CloseInputs : CloseOwnershipCase(c, p)

SpecLedger == InitLedger /\ [][NextLedger]_vars

InitBenef ==
    /\ today = 1
    /\ StartWith(ReadyCases(OneContract(NULL), 1, 1, 1))

NextBenef ==
    \/ AdvanceDay
    \/ \E person \in Persons \cup {NoPerson} : NominateContractBeneficiary(1, person)
    \/ \E end_date \in {NULL} \cup (1..(MaxDay + 1)) : RemoveContractBeneficiary(1, end_date)
    \/ \E p \in CloseInputs : CloseOwnershipCase(1, p)

SpecBenef == InitBenef /\ [][NextBenef]_vars

---------------------------------------------------------------------------
(* The transfer-case workflow on one contract *)

CaseIds == {1}
CaseTypeInputs == {"INTER_VIVOS", "BAD"}
StatusInputs == OwnershipTransferStatus \cup {"BAD"}
AllDocs == {"ACREDITACION_PARENTESCO_2_GRADO", "TITULO_SEPULTURA",
            "SOLICITUD_BENEFICIARIO", "DNI_NUEVO_BENEFICIARIO"}
FirstDocs == {"ACREDITACION_PARENTESCO_2_GRADO"}

\* a contract with or without a beneficiary and no case yet, or a contract with a
\* PROVISIONAL case that is approved and has no publication yet
InitCase ==
    /\ today = 1
    /\ \/ \E beneficiario \in {NULL, 3} : StartWith(OneContract(beneficiario))
       \/ StartWith(ReadyCase(OneContract(NULL), 1, 1, "PROVISIONAL", 2))

\* the scenario follows one case from its creation on
NextCase ==
    \/ \E type \in CaseTypeInputs :
          cases = <<>> /\ CreateOwnershipCase([contract_id |-> 1, type |-> type, provisional_start_date |-> NULL])
    \/ \E c \in CaseIds, person \in {2, NoPerson} : AddCaseParty(c, "NUEVO_TITULAR", person)
    \/ \E c \in CaseIds, d \in FirstDocs, f \in BOOLEAN : UploadCaseDocument(c, d, f)
    \/ \E c \in CaseIds, d \in AllDocs : VerifyCaseDocument(c, d, "verify")
    \/ \E c \in CaseIds, d \in FirstDocs, a \in {"reject", "bad"} : VerifyCaseDocument(c, d, a)
    \/ \E c \in CaseIds, st \in StatusInputs : ChangeOwnershipCaseStatus(c, st)
    \/ \E c \in CaseIds : ApproveOwnershipCase(c)
    \/ \E c \in CaseIds, channel \in {"BOP", "DIARIO", ""} : AddCasePublication(c, channel)
    \/ \E c \in CaseIds, reason \in {"", "motivo"} : RejectOwnershipCase(c, reason)
    \/ \E c \in CaseIds, decision \in {"", "KEEP", "REPLACE", "BAD"}, person \in {2, NoPerson} :
          CloseOwnershipCase(c, ClosePayload(decision, person))

SpecCase == InitCase /\ [][NextCase]_vars


---------------------------------------------------------------------------
(* Properties of the transfer-case workflow and of the two ledgers *)

OpenOwnership(rows, contract_id) ==
    {i \in Indices(rows) : rows[i].contract_id = contract_id /\ rows[i].end_date = NULL}

OpenBeneficiarios(rows, contract_id) ==
    {i \in Indices(rows) : rows[i].contrato_id = contract_id /\ rows[i].activo_hasta = NULL}

\* the case passes to CLOSED in this step
Closes(c) ==
    /\ c \in Indices(cases')
    /\ cases'[c].status = "CLOSED"
    /\ (c \in Indices(cases) => cases[c].status # "CLOSED")

AllRequiredVerified(case) ==
    \A d \in DOMAIN case.documents :
        case.documents[d].required => case.documents[d].status = "VERIFIED"

HasNuevoTitular(case) ==
    \E k \in Indices(case.parties) : case.parties[k].role = "NUEVO_TITULAR"

\* C1: a case passes to CLOSED only in a step in which every required document
\* of the case is VERIFIED and the case has a NUEVO_TITULAR party, whichever
\* operation closes it.
C1_ClosedOnlyWhenReady ==
    [][\A c \in CaseIds :
          Closes(c) => AllRequiredVerified(cases'[c]) /\ HasNuevoTitular(cases'[c])]_vars

\* C2: in every reachable state each contract has at most one ownership record
\* whose end_date is NULL, also after several cases of one contract are closed
\* on the same day.
C2_OneOpenOwnership ==
    \A k \in Indices(contratos) : Cardinality(OpenOwnership(ownership, k)) <= 1

\* two ownership records of one contract start on the same day, and the close
\* that picked the ended one of them was refused by the unique index
C2_Witness ==
    /\ last.op = "close_ownership_case" /\ ~last.ok /\ last.err = "IntegrityError"
    /\ \E i, j \in Indices(ownership) :
          /\ i # j
          /\ ownership[i].contract_id = ownership[j].contract_id
          /\ ownership[i].start_date = ownership[j].start_date
          /\ ownership[i].end_date # NULL /\ ownership[j].end_date = NULL

\* C3: in every reachable state each contract has at most one beneficiary row
\* whose activo_hasta is NULL, for any sequence of nominations, removals and
\* closes, three nominations on one day included.
C3_OneOpenBeneficiario ==
    \A k \in Indices(contratos) : Cardinality(OpenBeneficiarios(beneficiarios, k)) <= 1

\* three rows of one contract start on the same day
C3_Witness ==
    /\ Len(beneficiarios) >= 3
    /\ \A i \in Indices(beneficiarios) :
          /\ beneficiarios[i].contrato_id = 1
          /\ beneficiarios[i].activo_desde = beneficiarios[1].activo_desde
    /\ Cardinality({beneficiarios[i].person_id : i \in Indices(beneficiarios)}) >= 3

Edges ==
    {<<"DRAFT", "DOCS_PENDING">>,
     <<"DOCS_PENDING", "UNDER_REVIEW">>, <<"DOCS_PENDING", "REJECTED">>,
     <<"UNDER_REVIEW", "DOCS_PENDING">>, <<"UNDER_REVIEW", "APPROVED">>,
     <<"UNDER_REVIEW", "REJECTED">>,
     <<"REJECTED", "DOCS_PENDING">>,
     <<"APPROVED", "CLOSED">>}

\* the request of this step asks to take the case to status `st`
Requests(c, st) ==
    \/ ChangeOwnershipCaseStatus(c, st)
    \/ st = "APPROVED" /\ ApproveOwnershipCase(c)
    \/ st = "REJECTED" /\ \E reason \in {"", "motivo"} : RejectOwnershipCase(c, reason)
    \/ st = "CLOSED" /\ last'.op = "close_ownership_case" /\ last'.id = c

\* C4: the status of a case changes only along an edge of the transition table,
\* CLOSED is terminal and is entered from APPROVED only, and a request for any
\* other transition reports an error and leaves the status unchanged.
C4_StatusFollowsEdges ==
    [][\A c \in Indices(cases) :
          /\ cases'[c].status # cases[c].status
                => <<cases[c].status, cases'[c].status>> \in Edges
          /\ cases[c].status = "CLOSED" => cases'[c].status = "CLOSED"
          /\ Closes(c) => cases[c].status = "APPROVED"
          /\ \A st \in OwnershipTransferStatus :
                Requests(c, st) /\ <<cases[c].status, st>> \notin Edges
                    => ~last'.ok /\ last'.err # "" /\ cases'[c].status = cases[c].status]_vars

\* a transition out of CLOSED was requested and refused
C4_Witness ==
    /\ last.op = "change_ownership_case_status" /\ ~last.ok
    /\ last.err = "Transicion invalida"
    /\ last.id \in Indices(cases) /\ cases[last.id].status = "CLOSED"

\* C5: a successful close ends the ownership record that was open on the
\* contract on the closing date, adds exactly one open record for the person of
\* the NUEVO_TITULAR party that starts on the closing date, sets the case to
\* CLOSED with closed_at, and records one CAMBIO_TITULARIDAD movement and one
\* CAMBIO_TITULARIDAD contract event.
C5_CloseMovesOwnership ==
    [][last'.op = "close_ownership_case" /\ last'.ok =>
          LET c == last'.id
              k == cases[c].contract_id
              was_open == OpenOwnership(ownership, k)
              new == Len(ownership) + 1
          IN /\ was_open # {}
             /\ \A i \in was_open : ownership'[i].end_date = today
             /\ \A i \in Indices(ownership) \ was_open : ownership'[i] = ownership[i]
             /\ Len(ownership') = new
             /\ ownership'[new].contract_id = k
             /\ ownership'[new].start_date = today
             /\ ownership'[new].end_date = NULL
             /\ \E n \in Indices(cases[c].parties) :
                   /\ cases[c].parties[n].role = "NUEVO_TITULAR"
                   /\ cases[c].parties[n].person_id = ownership'[new].person_id
             /\ OpenOwnership(ownership', k) = {new}
             /\ cases'[c].status = "CLOSED"
             /\ cases'[c].closed_at = today
             /\ last'.movs = <<[sepultura_id |-> contratos[k].sepultura_id,
                                tipo |-> "CAMBIO_TITULARIDAD"]>>
             /\ last'.events = <<[contract_id |-> k, case_id |-> c,
                                  event_type |-> "CAMBIO_TITULARIDAD"]>>]_vars

\* a case was closed: the record of the first holder is ended and the new one is open
C5_Witness ==
    /\ last.op = "close_ownership_case" /\ last.ok
    /\ cases[last.id].status = "CLOSED"
    /\ Len(ownership) >= 2
    /\ ownership[1].end_date # NULL
    /\ ownership[Len(ownership)].end_date = NULL

---------------------------------------------------------------------------
(* Billing: yearly tickets of two contracts and their collection *)

BillingPayload(tipo, fecha_inicio, fecha_fin, pensionista, pensionista_desde) ==
    [ContractPayload(tipo, fecha_inicio, fecha_fin, 1, NULL) EXCEPT
        !.annual_fee_amount = 1005,
        !.pensionista = pensionista,
        !.pensionista_desde = pensionista_desde]

Years == 1..MaxYear
TicketIds == 1..MaxTickets

\* Grave 1 has a concession in force every year, whose holder may be a
\* pensioner since year 2.  Grave 2 has an immediate-use contract, or a
\* concession that is in force on 1 January of year 2 only.
InitBilling ==
    /\ today = 1
    /\ \E pensionista \in BOOLEAN :
          StartWith(Committing(create_funeral_right_contract(
                        Committing(create_funeral_right_contract(
                            EmptyDB, 1,
                            BillingPayload("CONCESION", 1, Jan1(MaxYear), pensionista,
                                           IF pensionista THEN Jan1(2) ELSE NULL))),
                        2,
                        IF pensionista
                        THEN BillingPayload("USO_INMEDIATO", 1, Jan1(MaxYear), FALSE, NULL)
                        ELSE BillingPayload("CONCESION", 2, Jan1(2), FALSE, NULL))))

NextBilling ==
    \/ \E year \in Years : GenerateMaintenanceTicketsForYear(year)
    \/ \E selected \in SUBSET TicketIds : CollectTickets(1, selected, {})
    \/ \E st \in {"PROPIA", "DISPONIBLE"} : ChangeSepulturaState(1, st)

SpecBilling == InitBilling /\ [][NextBilling]_vars

---------------------------------------------------------------------------
(* Properties of ticket generation and collection *)

\* the pending tickets of the active contract of the grave
PendingOfGrave(g) ==
    {i \in Indices(tickets) :
        /\ tickets[i].estado = "PENDIENTE"
        /\ contratos[tickets[i].contrato_id].sepultura_id = g
        /\ contratos[tickets[i].contrato_id].estado = "ACTIVO"}

\* the selection is the k oldest pending tickets of the grave, for some k >= 1
OldestFirst(g, selected) ==
    /\ selected # {}
    /\ selected \subseteq PendingOfGrave(g)
    /\ \A i \in selected, j \in PendingOfGrave(g) \ selected : tickets[i].anio < tickets[j].anio

BillingUnchanged ==
    /\ tickets' = tickets
    /\ invoices' = invoices
    /\ payments' = payments

\* C7: collect_tickets accepts a selection only if it is not empty and is
\* exactly the k oldest PENDIENTE tickets of the active contract of the grave;
\* any other selection is refused with an error and changes no ticket, invoice
\* or payment.
C7_OldestFirstCollection ==
    [][last'.op = "collect_tickets" =>
          /\ last'.ok => OldestFirst(last'.id, last'.selected)
          /\ ~OldestFirst(last'.id, last'.selected)
                => ~last'.ok /\ last'.err # "" /\ BillingUnchanged]_vars

\* a selection with a gap was refused while three tickets of contract 1 were pending
C7_Witness ==
    /\ last.op = "collect_tickets" /\ ~last.ok /\ last.id = 1
    /\ last.err = "Debes cobrar empezando por el ano pendiente mas antiguo"
    /\ Cardinality(PendingOfGrave(1)) >= 3

\* C8: a successful collect_tickets adds exactly one invoice, in state PAGADA,
\* and exactly one payment of it; payment amount = invoice total = sum of the
\* amounts stored on the selected tickets; the selected tickets are COBRADO and
\* linked to the invoice, the other tickets are unchanged.  A COBRADO ticket
\* never returns to PENDIENTE.
C8_CollectCreatesInvoiceAndPayment ==
    [][/\ last'.op = "collect_tickets" /\ last'.ok =>
            LET selected == last'.selected
                invoice_id == Len(invoices) + 1
                payment_id == Len(payments) + 1
            IN /\ invoices' = Append(invoices, invoices'[invoice_id])
               /\ payments' = Append(payments, payments'[payment_id])
               /\ invoices'[invoice_id].estado = "PAGADA"
               /\ payments'[payment_id].invoice_id = invoice_id
               /\ payments'[payment_id].amount = invoices'[invoice_id].total_amount
               /\ invoices'[invoice_id].total_amount =
                    SumOver([i \in selected |-> tickets'[i].importe], selected)
               /\ Len(tickets') = Len(tickets)
               /\ \A i \in Indices(tickets) :
                    IF i \in selected
                    THEN /\ tickets'[i].estado = "COBRADO"
                         /\ tickets'[i].invoice_id = invoice_id
                    ELSE tickets'[i] = tickets[i]
       /\ \A i \in Indices(tickets) :
            tickets[i].estado = "COBRADO" => tickets'[i].estado = "COBRADO"]_vars

\* two tickets with different amounts were collected on one invoice
C8_Witness ==
    /\ last.op = "collect_tickets" /\ last.ok
    /\ \E i, j \in Indices(tickets) :
          /\ tickets[i].invoice_id = last.ret /\ tickets[j].invoice_id = last.ret
          /\ tickets[i].importe # tickets[j].importe
          /\ invoices[last.ret].total_amount = tickets[i].importe + tickets[j].importe
    /\ \E i \in Indices(tickets) : tickets[i].estado = "PENDIENTE"

\* C9: there is at most one ticket for each contract and year, and a run of
\* generate_maintenance_tickets_for_year that follows a run for the same year
\* creates no ticket, changes no ticket and counts as existing every ticket the
\* first run created.
C9_GenerationIdempotent ==
    /\ [](\A i, j \in Indices(tickets) :
            (tickets[i].contrato_id = tickets[j].contrato_id /\ tickets[i].anio = tickets[j].anio)
                => i = j)
    /\ [][\A year \in Years :
            (/\ last.op = "generate_maintenance_tickets_for_year" /\ last.ok /\ last.id = year
             /\ GenerateMaintenanceTicketsForYear(year))
            => /\ last'.ok
               /\ last'.created = 0
               /\ last'.existing >= last.created
               /\ tickets' = tickets]_vars

\* the second of two runs for one year found the two tickets of the first
C9_Witness ==
    /\ last.op = "generate_maintenance_tickets_for_year" /\ last.ok
    /\ last.created = 0 /\ last.existing >= 2

\* C10: a ticket of year Y is created only for a contract that is ACTIVO, a
\* CONCESION, in force on 1 January of Y and on a grave that is not PROPIA; no
\* ticket belongs to a USO_INMEDIATO contract; collect_tickets on a PROPIA grave
\* fails.
C10_TicketsOnlyForConcessions ==
    [][/\ \A i \in Indices(tickets') \ Indices(tickets) :
            LET contrato == contratos[tickets'[i].contrato_id]
                jan_1 == ((tickets'[i].anio - 1) * DaysPerYear) + 1
            IN /\ contrato.estado = "ACTIVO"
               /\ contrato.tipo = "CONCESION"
               /\ contrato.fecha_inicio <= jan_1 /\ jan_1 <= contrato.fecha_fin
               /\ sepulturas[contrato.sepultura_id].estado # "PROPIA"
       /\ \A i \in Indices(tickets') : contratos'[tickets'[i].contrato_id].tipo # "USO_INMEDIATO"
       /\ \A g \in Sepulturas :
            (last'.op = "collect_tickets" /\ last'.id = g /\ sepulturas[g].estado = "PROPIA")
                => ~last'.ok /\ BillingUnchanged]_vars

\* a run for year 2 while grave 1 was PROPIA: only the contract of grave 2 got a ticket
C10_Witness ==
    /\ last.op = "generate_maintenance_tickets_for_year" /\ last.ok /\ last.id = 2
    /\ last.created = 1
    /\ sepulturas[1].estado = "PROPIA"
    /\ \A i \in Indices(tickets) : ~(tickets[i].contrato_id = 1 /\ tickets[i].anio = 2)
    /\ \E i \in Indices(tickets) : tickets[i].contrato_id = 2 /\ tickets[i].anio = 2

---------------------------------------------------------------------------
(* The pensioner discount: one concession whose holder is marked as pensioner *)

FeeInputs == {1005, -1005}
SinceInputs == {NULL, 1, Jan1(2)}
PensionerYears == 1..(MaxYear - 1)

\* Grave 1 has a concession in force every year, with a positive or a negative
\* annual fee (_parse_decimal accepts both); its holder is not a pensioner or
\* is one since year 2.
InitPensioner ==
    /\ today = 1
    /\ \E fee \in FeeInputs, pensionista \in BOOLEAN :
          StartWith(Committing(create_funeral_right_contract(
                        EmptyDB, 1,
                        [BillingPayload("CONCESION", 1, Jan1(MaxYear), pensionista,
                                        IF pensionista THEN Jan1(2) ELSE NULL)
                            EXCEPT !.annual_fee_amount = fee])))

NextPensioner ==
    \/ AdvanceDay
    \/ \E year \in PensionerYears : GenerateMaintenanceTicketsForYear(year)
    \/ \E since \in SinceInputs, allow \in BOOLEAN : SetContractHolderPensioner(1, since, allow)
    \/ \E selected \in SUBSET PensionerYears, discount \in SUBSET PensionerYears :
          CollectTickets(1, selected, discount)

SpecPensioner == InitPensioner /\ [][NextPensioner]_vars

---------------------------------------------------------------------------
(* Properties of the pensioner discount *)

\* the ownership records of the contract in force on the day, latest start first
HoldersOn(contract_id, day) ==
    LET rows == {i \in Indices(ownership) :
                    /\ ownership[i].contract_id = contract_id
                    /\ ownership[i].start_date <= day
                    /\ (ownership[i].end_date = NULL \/ ownership[i].end_date >= day)}
    IN {i \in rows : \A j \in rows : ownership[j].start_date <= ownership[i].start_date}

\* the holder is a pensioner since the year or before
PensionerIn(i, year) ==
    /\ ownership[i].is_pensioner
    /\ ownership[i].pensioner_since_date # NULL
    /\ YearOf(ownership[i].pensioner_since_date) <= year

\* amount = fee x (100 - pct) / 100, up to the rounding to a cent
IsDiscounted(amount, fee) ==
    LET exact == fee * (10000 - pensionista_discount_pct)
        diff == (amount * 10000) - exact
    IN (2 * diff <= 10000) /\ (2 * diff >= -10000)

\* the ticket carries the discounted fee as PENSIONISTA or the full fee as NONE
PricedFromFee(ticket, fee) ==
    \/ ticket.descuento_tipo = "PENSIONISTA" /\ IsDiscounted(ticket.importe, fee)
    \/ ticket.descuento_tipo = "NONE" /\ ticket.importe = fee

\* C11: a ticket created for year Y is PENSIONISTA with the discounted fee only
\* when the holder on 1 January of Y is a pensioner since Y or before; a
\* collected ticket is PENSIONISTA with the discounted fee only when the
\* current holder is a pensioner since the ticket's year or before, or is a
\* pensioner and the ticket is listed in discount_ticket_ids; in every other
\* case the ticket carries the full annual fee with type NONE.
C11_DiscountNotRetroactive ==
    [][/\ \A i \in Indices(tickets') \ Indices(tickets) :
            LET ticket == tickets'[i]
                holders == HoldersOn(ticket.contrato_id, Jan1(ticket.anio))
            IN /\ PricedFromFee(ticket, contratos[ticket.contrato_id].annual_fee_amount)
               /\ ticket.descuento_tipo = "PENSIONISTA"
                    => \E h \in holders : PensionerIn(h, ticket.anio)
       /\ (last'.op = "collect_tickets" /\ last'.ok) =>
            \A i \in last'.selected :
                LET ticket == tickets'[i]
                    holders == HoldersOn(ticket.contrato_id, today)
                IN /\ PricedFromFee(ticket, contratos[ticket.contrato_id].annual_fee_amount)
                   /\ ticket.descuento_tipo = "PENSIONISTA"
                        => \E h \in holders :
                              \/ PensionerIn(h, ticket.anio)
                              \/ /\ PensionerIn(h, MaxYear + 1)
                                 /\ i \in last'.discount]_vars

\* C19: set_contract_holder_pensioner with a since_date before today and
\* without allow_retroactive fails with an error, leaves every ownership record
\* (is_pensioner and pensioner_since_date of the holder included) unchanged and
\* logs no movement and no contract event.
C19_PensionerNotRetroactiveByDefault ==
    [][\A since \in SinceInputs \ {NULL} :
          (since < today /\ SetContractHolderPensioner(1, since, FALSE))
            => /\ ~last'.ok /\ last'.err # ""
               /\ ownership' = ownership
               /\ last'.movs = <<>>
               /\ last'.events = <<>>]_vars

\* on day 2 a request with since_date 1 was refused; the holder is still no pensioner
C19_Witness ==
    /\ today = 2
    /\ last.op = "set_contract_holder_pensioner" /\ ~last.ok
    /\ last.err = "No retroactivo por defecto"
    /\ ~ownership[1].is_pensioner

---------------------------------------------------------------------------
(* Graves: manual state changes and the creation of contracts *)

NoSepultura == NumSepulturas + 1
EstadoInputs == SepulturaEstado \cup {"BAD"}

\* a valid payload, an unknown holder, an unknown beneficiary, an unknown type,
\* and dates the schema refuses (fecha_fin before fecha_inicio)
GraveContractInputs ==
    {ContractPayload("CONCESION", inicio, MaxDay + 1, titular, beneficiario) :
        inicio \in Days, titular \in {2, NoPerson}, beneficiario \in {NULL, 3}}
    \cup {ContractPayload("USO_INMEDIATO", 1, MaxDay + 1, 1, NoPerson),
          ContractPayload("BAD", 1, MaxDay + 1, 1, NULL),
          ContractPayload("CONCESION", MaxDay, 1, 1, NULL)}

InitGrave ==
    /\ today = 1
    /\ StartWith(EmptyDB)

NextGrave ==
    \/ \E g \in Sepulturas \cup {NoSepultura}, st \in EstadoInputs : ChangeSepulturaState(g, st)
    \/ \E g \in Sepulturas \cup {NoSepultura}, p \in GraveContractInputs :
          CreateFuneralRightContract(g, p)

SpecGrave == InitGrave /\ [][NextGrave]_vars

---------------------------------------------------------------------------
(* Properties of graves and of the creation of contracts *)

\* the request is one change_sepultura_state must refuse
ManualChangeRefused(g, st) ==
    \/ st = "OCUPADA"
    \/ sepulturas[g].estado = "OCUPADA" /\ st = "LLIURE"

\* C12: change_sepultura_state never sets a grave to OCUPADA and never moves a
\* grave from OCUPADA to LLIURE: both requests fail with an error and change no
\* grave; every other requested state is applied to the grave.
C12_ManualStateChange ==
    [][\A g \in Sepulturas :
          /\ (last'.op = "change_sepultura_state" /\ last'.id = g)
                => /\ sepulturas'[g].estado # sepulturas[g].estado
                        => sepulturas'[g].estado # "OCUPADA"
                   /\ ~(sepulturas[g].estado = "OCUPADA" /\ sepulturas'[g].estado = "LLIURE")
          /\ \A st \in SepulturaEstado :
                ChangeSepulturaState(g, st) =>
                    IF ManualChangeRefused(g, st)
                    THEN ~last'.ok /\ last'.err # "" /\ sepulturas' = sepulturas
                    ELSE /\ last'.ok
                         /\ sepulturas'[g].estado = st
                         /\ \A h \in Sepulturas \ {g} : sepulturas'[h] = sepulturas[h]]_vars

\* LLIURE was requested for a grave that is OCUPADA by a contract, and refused
C12_Witness ==
    /\ last.op = "change_sepultura_state" /\ ~last.ok
    /\ last.err = "No se puede pasar de Ocupada a Lliure"
    /\ sepulturas[last.id].estado = "OCUPADA"
    /\ \E k \in Indices(contratos) : contratos[k].sepultura_id = last.id

ActiveContracts(rows, g) ==
    {k \in Indices(rows) : rows[k].sepultura_id = g /\ rows[k].estado = "ACTIVO"}

\* C15: create_funeral_right_contract succeeds only on a grave that is
\* DISPONIBLE and has no ACTIVO contract; a success leaves the grave OCUPADA and
\* the new contract with exactly one ownership record, open, of the given
\* titular, starting at fecha_inicio; a failure adds no contract, ownership
\* record or beneficiary and leaves the graves as they were.
C15_ContractCreation ==
    [][\A g \in Sepulturas \cup {NoSepultura}, p \in GraveContractInputs :
          CreateFuneralRightContract(g, p) =>
            LET new == Len(contratos) + 1
                records == {i \in Indices(ownership') : ownership'[i].contract_id = new}
            IN /\ last'.ok =>
                    /\ g \in Sepulturas
                    /\ sepulturas[g].estado = "DISPONIBLE"
                    /\ ActiveContracts(contratos, g) = {}
                    /\ sepulturas'[g].estado = "OCUPADA"
                    /\ contratos' = Append(contratos, contratos'[new])
                    /\ contratos'[new].sepultura_id = g
                    /\ contratos'[new].estado = "ACTIVO"
                    /\ Cardinality(records) = 1
                    /\ \A i \in records :
                          /\ i \notin Indices(ownership)
                          /\ ownership'[i].person_id = p.titular_person_id
                          /\ ownership'[i].start_date = p.fecha_inicio
                          /\ ownership'[i].end_date = NULL
               /\ ~last'.ok =>
                    /\ contratos' = contratos
                    /\ ownership' = ownership
                    /\ beneficiarios' = beneficiarios
                    /\ sepulturas' = sepulturas]_vars

\* a contract was refused on a grave set back to DISPONIBLE whose contract is
\* still ACTIVO
C15_Witness ==
    /\ last.op = "create_funeral_right_contract" /\ ~last.ok
    /\ last.err = "Contrato activo"
    /\ sepulturas[last.id].estado = "DISPONIBLE"
    /\ ActiveContracts(contratos, last.id) # {}

---------------------------------------------------------------------------
(* The legal duration of a contract *)

\* the first and the second day of the year
DurationStarts == {Jan1(1), Jan1(1) + 1}

\* the same two days 25, 26, 50, 51, 99 and 100 years later
DurationEnds ==
    {_add_years(d, n) : d \in DurationStarts, n \in {25, 26, 50, 51, 99, 100}}

DurationInputs ==
    {[ContractPayload(tipo, inicio, fin, 1, NULL) EXCEPT !.legacy_99_years = legacy] :
        tipo \in DerechoTipo, inicio \in DurationStarts, fin \in DurationEnds,
        legacy \in BOOLEAN}

InitDuration ==
    /\ today = 1
    /\ StartWith(EmptyDB)

NextDuration ==
    \/ \E p \in DurationInputs : CreateFuneralRightContract(1, p)
    \/ \E tipo \in DerechoTipo : AssignContractField(1, "tipo", tipo)
    \/ \E legacy \in BOOLEAN : AssignContractField(1, "legacy_99_years", legacy)
    \/ \E d \in DurationStarts : AssignContractField(1, "fecha_inicio", d)
    \/ \E d \in DurationEnds : AssignContractField(1, "fecha_fin", d)

SpecDuration == InitDuration /\ [][NextDuration]_vars

\* the legal cap of the contract, in years
LegalCap(contrato) ==
    IF contrato.tipo = "USO_INMEDIATO" THEN 25
    ELSE IF contrato.legacy_99_years THEN 99 ELSE 50

\* C13: for every contract, fecha_fin is not later than the day that lies
\* LegalCap years after fecha_inicio (25 for USO_INMEDIATO, 99 for a CONCESION
\* with legacy_99_years, 50 for any other CONCESION): no construction and no
\* assignment of tipo, fecha_inicio, fecha_fin or legacy_99_years that exceeds
\* the cap is accepted.
C13_DurationWithinCap ==
    \A k \in Indices(contratos) :
        contratos[k].fecha_fin
            <= contratos[k].fecha_inicio + (LegalCap(contratos[k]) * DaysPerYear)

---------------------------------------------------------------------------
(* The gravestone stock ledger: entries and exits on the stock of one
   organization, which has one expediente on grave 1 *)

ExpedientePayload(tipo, sepultura_id, difunto_id, declarante_id) ==
    [tipo |-> tipo, sepultura_id |-> sepultura_id, difunto_id |-> difunto_id,
     declarante_id |-> declarante_id]

OneExpediente ==
    Committing(create_expediente(EmptyDB, 1, ExpedientePayload("INHUMACION", 1, NULL, NULL),
                                 NULL, FALSE))

StockEntryInputs ==
    [quantity : {0, 1, 2}, stock_id : {NULL, 1, 2}, codigo : {"", "LAP-A", "lap-a", "LAP-B"}]

StockExitInputs ==
    [quantity : {0, 1, 2, 3}, stock_id : {NULL, 1, 2}, codigo : {"", "LAP-A", "lap-a"},
     sepultura_id : {NULL, 1, NoSepultura}, expediente_id : {NULL, 1, 2}]

InitStock ==
    /\ today = 1
    /\ StartWith(OneExpediente)

NextStock ==
    \/ \E p \in StockEntryInputs : LapidaStockEntry(p)
    \/ \E p \in StockExitInputs : LapidaStockExit(p)

SpecStock == InitStock /\ [][NextStock]_vars

\* the sum of the quantities of the movements of one kind of a stock item
Moved(rows, stock_id, movimiento) ==
    LET of == {n \in Indices(rows) :
                  rows[n].lapida_stock_id = stock_id /\ rows[n].movimiento = movimiento}
    IN SumOver([n \in of |-> rows[n].quantity], of)

\* the stock items the exit names: the one with the id, else those with the code
NamedStock(p) ==
    IF p.stock_id \in Indices(stock) THEN {p.stock_id}
    ELSE {i \in Indices(stock) : p.codigo # "" /\ stock[i].codigo = p.codigo}

\* the exit asks for more than is available, or names a grave or an expediente
\* that does not exist
ExitMustFail(p) ==
    \/ \E i \in NamedStock(p) : p.quantity > stock[i].available_qty
    \/ p.sepultura_id # NULL /\ p.sepultura_id \notin Sepulturas
    \/ p.expediente_id # NULL /\ p.expediente_id \notin Indices(expedientes)

---------------------------------------------------------------------------
(* Expedientes and their work orders *)

ExpedienteInputs ==
    {ExpedientePayload(tipo, sepultura_id, difunto_id, NULL) :
        tipo \in {"exhumacion", ""}, sepultura_id \in {NULL, 1, NoSepultura},
        difunto_id \in {NULL, NoPerson}}

ExpedienteIds == 1..(MaxExpedientes + 1)
ExpedienteStateInputs == EXPEDIENTE_STATES \cup {"en_tramite", "BAD", ""}

InitExpediente ==
    /\ today = 1
    /\ StartWith(EmptyDB)

NextExpediente ==
    \/ \E p \in ExpedienteInputs : CreateExpediente(p)
    \/ \E e \in ExpedienteIds, st \in ExpedienteStateInputs : TransitionExpedienteState(e, st)
    \/ \E e \in ExpedienteIds : CreateExpedienteOt(e)
    \/ \E e \in ExpedienteIds, ot \in 1..MaxOrdenes : CompleteExpedienteOt(e, ot)
    \/ \E e \in ExpedienteIds, ot \in 1..MaxOrdenes : ExpedienteOtPdf(e, ot)

SpecExpediente == InitExpediente /\ [][NextExpediente]_vars

ExpedienteEdges ==
    {<<"ABIERTO", "EN_TRAMITE">>, <<"ABIERTO", "CANCELADO">>,
     <<"EN_TRAMITE", "FINALIZADO">>, <<"EN_TRAMITE", "CANCELADO">>}

\* how far a state is from ABIERTO
ExpedienteRank(estado) ==
    CASE estado = "ABIERTO" -> 1
      [] estado = "EN_TRAMITE" -> 2
      [] estado \in {"FINALIZADO", "CANCELADO"} -> 3

\* C17: an expediente is created ABIERTO; its state changes only from ABIERTO to
\* EN_TRAMITE or CANCELADO and from EN_TRAMITE to FINALIZADO or CANCELADO, so
\* every change moves it further from ABIERTO and no state is entered again;
\* FINALIZADO and CANCELADO are terminal; a request for any other state reports
\* an error and leaves the state unchanged.
C17_ExpedienteStateMachine ==
    [][/\ \A e \in Indices(expedientes') \ Indices(expedientes) :
             expedientes'[e].estado = "ABIERTO"
       /\ \A e \in Indices(expedientes) :
             /\ e \in Indices(expedientes')
             /\ expedientes'[e].estado # expedientes[e].estado
                   => /\ <<expedientes[e].estado, expedientes'[e].estado>> \in ExpedienteEdges
                      /\ ExpedienteRank(expedientes'[e].estado)
                            > ExpedienteRank(expedientes[e].estado)
             /\ expedientes[e].estado \in {"FINALIZADO", "CANCELADO"}
                   => expedientes'[e].estado = expedientes[e].estado
             /\ \A st \in ExpedienteStateInputs :
                   /\ TransitionExpedienteState(e, st)
                   /\ <<expedientes[e].estado, Upper(st)>> \notin ExpedienteEdges
                   => /\ ~last'.ok /\ last'.err # ""
                      /\ expedientes'[e].estado = expedientes[e].estado]_vars

\* one expediente is FINALIZADO, and a request to change the state of a terminal
\* expediente was refused
C17_Witness ==
    /\ last.op = "transition_expediente_state" /\ ~last.ok
    /\ last.err = "Transicion invalida"
    /\ last.id \in Indices(expedientes)
    /\ expedientes[last.id].estado \in {"FINALIZADO", "CANCELADO"}
    /\ \E e \in Indices(expedientes) : expedientes[e].estado = "FINALIZADO"

---------------------------------------------------------------------------
(* Lateral inscriptions on the graves of an organization that has one expediente *)

InscripcionInputs ==
    [sepultura_id : {NULL, 1, NoSepultura}, texto : {"", "Nueva placa"},
     expediente_id : {NULL, 1, 2}]

InscripcionIds == 1..(MaxInscripciones + 1)
InscripcionStateInputs == INSCRIPCION_STATES \cup {"pendiente_colocar", "BAD"}

InitInscripcion ==
    /\ today = 1
    /\ StartWith(OneExpediente)

NextInscripcion ==
    \/ \E p \in InscripcionInputs : CreateInscripcionLateral(p)
    \/ \E i \in InscripcionIds, st \in InscripcionStateInputs \cup {""} :
          TransitionInscripcionEstado(i, st)

SpecInscripcion == InitInscripcion /\ [][NextInscripcion]_vars

InscripcionOrder ==
    <<"PENDIENTE_GRABAR", "PENDIENTE_COLOCAR", "PENDIENTE_NOTIFICAR", "NOTIFICADA">>

\* the place of a state in the order, 0 for a string that is no state
InscripcionStep(estado) ==
    IF \E n \in 1..4 : InscripcionOrder[n] = estado
    THEN CHOOSE n \in 1..4 : InscripcionOrder[n] = estado
    ELSE 0

\* C18: an inscription is created PENDIENTE_GRABAR and every change of its state
\* takes it to the next state of PENDIENTE_GRABAR, PENDIENTE_COLOCAR,
\* PENDIENTE_NOTIFICAR, NOTIFICADA; a request without a target state advances it
\* to the next state; a request for a state that is not the next one (a skipped
\* step, a step backwards) reports an error and changes nothing; NOTIFICADA is
\* terminal.
C18_InscripcionStateMachine ==
    [][/\ \A i \in Indices(inscripciones') \ Indices(inscripciones) :
             inscripciones'[i].estado = "PENDIENTE_GRABAR"
       /\ \A i \in Indices(inscripciones) :
             LET old == inscripciones[i].estado
                 new == inscripciones'[i].estado
             IN /\ new # old => InscripcionStep(new) = InscripcionStep(old) + 1
                /\ old = "NOTIFICADA" => new = "NOTIFICADA"
                /\ TransitionInscripcionEstado(i, "") /\ old # "NOTIFICADA"
                      => last'.ok /\ InscripcionStep(new) = InscripcionStep(old) + 1
                /\ \A st \in InscripcionStateInputs :
                      /\ TransitionInscripcionEstado(i, st)
                      /\ InscripcionStep(Upper(st)) # InscripcionStep(old) + 1
                      => ~last'.ok /\ last'.err # "" /\ new = old]_vars

\* one inscription has gone all the way to NOTIFICADA, and a request that skips a
\* step of another one was refused
C18_Witness ==
    /\ last.op = "transition_inscripcion_estado" /\ ~last.ok
    /\ last.err = "Transicion invalida"
    /\ last.id \in Indices(inscripciones)
    /\ inscripciones[last.id].estado = "PENDIENTE_COLOCAR"
    /\ \E i \in Indices(inscripciones) : inscripciones[i].estado = "NOTIFICADA"

---------------------------------------------------------------------------
(* Cases that preload the beneficiary: one contract whose beneficiary is
   nominated, replaced and removed before a case is opened *)

PreloadCase == [contract_id |-> 1, type |-> "MORTIS_CAUSA_CON_BENEFICIARIO",
                provisional_start_date |-> NULL]

InitPreload ==
    /\ today = 1
    /\ \E beneficiario \in {NULL, 3} : StartWith(OneContract(beneficiario))

NextPreload ==
    \/ AdvanceDay
    \/ \E person \in {2, 3} : NominateContractBeneficiary(1, person)
    \/ \E end_date \in {NULL, MaxDay + 1} : RemoveContractBeneficiary(1, end_date)
    \/ CreateOwnershipCase(PreloadCase)
    \/ CreateOwnershipCase([PreloadCase EXCEPT !.type = "INTER_VIVOS"])

SpecPreload == InitPreload /\ [][NextPreload]_vars

\* C20: create_ownership_case of type MORTIS_CAUSA_CON_BENEFICIARIO fails and
\* creates no case when the contract has no active beneficiary (no beneficiary
\* row with activo_hasta NULL); when it succeeds, the NUEVO_TITULAR party of the
\* new case is the person of the active beneficiary of the contract.
C20_PreloadsActiveBeneficiary ==
    [][CreateOwnershipCase(PreloadCase) =>
          LET active == OpenBeneficiarios(beneficiarios, 1)
              id == Len(cases) + 1
          IN /\ active = {} => ~last'.ok /\ cases' = cases
             /\ last'.ok =>
                   /\ Len(cases') = id
                   /\ \E k \in Indices(cases'[id].parties) :
                         cases'[id].parties[k].role = "NUEVO_TITULAR"
                   /\ \A k \in Indices(cases'[id].parties) :
                         cases'[id].parties[k].role = "NUEVO_TITULAR"
                            => \E b \in active :
                                  cases'[id].parties[k].person_id = beneficiarios[b].person_id]_vars

---------------------------------------------------------------------------
(* Two organizations. Grave 1 and persons 1..NumPersons belong to organization
   1, grave 2 and person OtherOrgPerson to organization 2, which has a contract
   with a transfer case, an expediente with a work order, a gravestone stock
   item and a lateral inscription. Organization 1 starts with no row, or with a
   contract, a case that is ready to close and a stock item of the same code. *)

TwoOrgs == [EmptyDB EXCEPT !.sepulturas[2].org_id = 2]

TenantCase(contract_id) ==
    [contract_id |-> contract_id, type |-> "INTER_VIVOS", provisional_start_date |-> NULL]

OtherOrgRows ==
    LET s0 == [TwoOrgs EXCEPT !.org = 2]
        s1 == Committing(create_funeral_right_contract(
                  s0, 2, ContractPayload("CONCESION", 1, MaxDay + 1, OtherOrgPerson, NULL)))
        s2 == Committing(create_ownership_case(
                  s1, 1, TenantCase(1), Pick(active_titular_for_contract(s1, 1, 1)), NULL))
        s3 == Committing(create_expediente(
                  s2, 1, ExpedientePayload("INHUMACION", 2, NULL, NULL), NULL, FALSE))
        s4 == Committing(create_expediente_ot(s3, 1))
        s5 == Committing(lapida_stock_entry(
                  s4, [quantity |-> 2, stock_id |-> NULL, codigo |-> "LAP-A"], NULL))
        s6 == Committing(create_inscripcion_lateral(
                  s5, [sepultura_id |-> 2, texto |-> "Nueva placa", expediente_id |-> 1]))
    IN [s6 EXCEPT !.org = 1]

OwnOrgRows(s) ==
    LET s1 == Committing(create_funeral_right_contract(
                  s, 1, ContractPayload("CONCESION", 1, MaxDay + 1, 1, 3)))
        s2 == ReadyCase(s1, 1, 2, "MORTIS_CAUSA_TESTAMENTO", 2)
        s3 == Committing(create_expediente(
                  s2, 1, ExpedientePayload("INHUMACION", 1, NULL, NULL), NULL, FALSE))
        s4 == Committing(create_expediente_ot(s3, 2))
        s5 == Committing(lapida_stock_entry(
                  s4, [quantity |-> 1, stock_id |-> NULL, codigo |-> "LAP-A"], NULL))
    IN Committing(create_inscripcion_lateral(
           s5, [sepultura_id |-> 1, texto |-> "Nueva placa", expediente_id |-> 2]))

TenantGraves == Sepulturas \cup {NoSepultura}
TenantIds == 1..3
TenantPersons == {2, OtherOrgPerson}
TenantDocs == {"TITULO_SEPULTURA", "ACREDITACION_PARENTESCO_2_GRADO"}
TenantContracts ==
    {ContractPayload("CONCESION", 1, MaxDay + 1, person, NULL) : person \in TenantPersons}
TenantExpedientes ==
    {ExpedientePayload("INHUMACION", g, difunto, NULL) :
        g \in TenantGraves, difunto \in TenantPersons \cup {NULL}}
TenantStockEntries == [quantity : {1}, stock_id : TenantIds, codigo : {"", "LAP-A"}]
TenantStockExits ==
    [quantity : {1}, stock_id : TenantIds, codigo : {"", "LAP-A"},
     sepultura_id : TenantGraves \cup {NULL}, expediente_id : {NULL, 1, 2}]
TenantInscripciones ==
    [sepultura_id : TenantGraves, texto : {"Nueva placa"}, expediente_id : {NULL, 1, 2}]

\* the id names no row of the organization of the logged-in user
NotOwn(rows, id) ==
    IF id \in DOMAIN rows THEN rows[id].org_id # load_tenant_context(current_user) ELSE TRUE

NotOwnPerson(person_id) == ~_person_by_org(DB, person_id)

NotOwnDoc(case_id, doc) ==
    IF NotOwn(cases, case_id) THEN TRUE ELSE doc \notin DocTypes(cases[case_id])

InitTenant ==
    /\ today = 1
    /\ \E s \in {OtherOrgRows, OwnOrgRows(OtherOrgRows)} : StartWith(s)

\* The requests that change rows name a grave, contract, case, document,
\* expediente, work order, inscription or person that is not of the organization
\* of the user; the pages, the PDFs and the stock requests name any id.
NextTenant ==
    \/ \E user \in Users : Login(user)
    \/ \E g \in TenantGraves : NotOwn(sepulturas, g) /\ ChangeSepulturaState(g, "INACTIVA")
    \/ \E g \in TenantGraves, p \in TenantContracts :
          /\ NotOwn(sepulturas, g) \/ NotOwnPerson(p.titular_person_id)
          /\ CreateFuneralRightContract(g, p)
    \/ \E g \in TenantGraves : NotOwn(sepulturas, g) /\ CollectTickets(g, {1}, {})
    \/ \E k \in TenantIds : FuneralRightTitlePdf(k)
    \/ \E k \in TenantIds, person \in TenantPersons :
          /\ NotOwn(contratos, k) \/ NotOwnPerson(person)
          /\ NominateContractBeneficiary(k, person)
    \/ \E k \in TenantIds : NotOwn(contratos, k) /\ RemoveContractBeneficiary(k, NULL)
    \/ \E k \in TenantIds : NotOwn(contratos, k) /\ SetContractHolderPensioner(k, NULL, FALSE)
    \/ \E k \in TenantIds : NotOwn(contratos, k) /\ CreateOwnershipCase(TenantCase(k))
    \/ \E c \in TenantIds : OwnershipCaseDetail(c)
    \/ \E c \in TenantIds, person \in TenantPersons :
          /\ NotOwn(cases, c) \/ NotOwnPerson(person)
          /\ AddCaseParty(c, "NUEVO_TITULAR", person)
    \/ \E c \in TenantIds : NotOwn(cases, c) /\ AddCasePublication(c, "BOP")
    \/ \E c \in TenantIds, doc \in TenantDocs :
          NotOwnDoc(c, doc) /\ UploadCaseDocument(c, doc, TRUE)
    \/ \E c \in TenantIds, doc \in TenantDocs :
          NotOwnDoc(c, doc) /\ VerifyCaseDocument(c, doc, "verify")
    \/ \E c \in TenantIds : NotOwn(cases, c) /\ ChangeOwnershipCaseStatus(c, "DOCS_PENDING")
    \/ \E c \in TenantIds : NotOwn(cases, c) /\ ApproveOwnershipCase(c)
    \/ \E c \in TenantIds : NotOwn(cases, c) /\ RejectOwnershipCase(c, "motivo")
    \/ \E c \in TenantIds, person \in TenantPersons :
          /\ NotOwn(cases, c) \/ NotOwnPerson(person)
          /\ CloseOwnershipCase(c, ClosePayload("REPLACE", person))
    \/ \E p \in TenantExpedientes :
          /\ NotOwn(sepulturas, p.sepultura_id)
                \/ (p.difunto_id # NULL /\ NotOwnPerson(p.difunto_id))
          /\ CreateExpediente(p)
    \/ \E e \in TenantIds : NotOwn(expedientes, e) /\ TransitionExpedienteState(e, "EN_TRAMITE")
    \/ \E e \in TenantIds : NotOwn(expedientes, e) /\ CreateExpedienteOt(e)
    \/ \E e \in TenantIds, o \in TenantIds :
          /\ NotOwn(expedientes, e) \/ NotOwn(ordenes, o)
          /\ CompleteExpedienteOt(e, o)
    \/ \E e \in TenantIds, o \in TenantIds : ExpedienteOtPdf(e, o)
    \/ \E p \in TenantStockEntries : LapidaStockEntry(p)
    \/ \E p \in TenantStockExits : LapidaStockExit(p)
    \/ \E p \in TenantInscripciones :
          /\ NotOwn(sepulturas, p.sepultura_id)
                \/ (p.expediente_id # NULL /\ NotOwn(expedientes, p.expediente_id))
          /\ CreateInscripcionLateral(p)
    \/ \E i \in TenantIds : NotOwn(inscripciones, i) /\ TransitionInscripcionEstado(i, "")

SpecTenant == InitTenant /\ [][NextTenant]_vars

\* the organization of the logged-in user
ActiveOrg == load_tenant_context(current_user)

\* the id names a row of another organization / of the organization of the user
Foreign(rows, id) == id \in DOMAIN rows /\ rows[id].org_id # ActiveOrg
Own(rows, id) == id \in DOMAIN rows /\ rows[id].org_id = ActiveOrg

ForeignPerson(person_id) ==
    person_id \in Persons \cup {OtherOrgPerson} /\ PersonOrgId(person_id) # ActiveOrg

\* the document is one of a case of another organization and not of the case named
ForeignDoc(case_id, doc) ==
    /\ doc \notin DocTypes(cases[case_id])
    /\ \E f \in Indices(cases) : Foreign(cases, f) /\ doc \in DocTypes(cases[f])

NotFoundErrors ==
    {"Sepultura no encontrada", "Contrato no encontrado", "Caso no encontrado",
     "Documento no encontrado", "Expediente no encontrado",
     "Orden de trabajo no encontrada", "Stock de lapida no encontrado",
     "Inscripcion no encontrada", "Persona no encontrada", "Titular no encontrada",
     "Beneficiario no encontrada", "Difunto no encontrado", "Declarante no encontrado"}

\* the request failed, returned nothing and left every row as it was
Refused ==
    /\ ~last'.ok
    /\ last'.ret = NULL
    /\ last'.movs = <<>>
    /\ last'.events = <<>>
    /\ tables' = tables

RefusedAsNotFound == Refused /\ last'.err \in NotFoundErrors

\* the step is a request whose first lookup is of an id of another organization
NamesForeignFirst ==
    \/ \E g \in Sepulturas :
          /\ Foreign(sepulturas, g)
          /\ \/ ChangeSepulturaState(g, "INACTIVA")
             \/ CollectTickets(g, {1}, {})
             \/ \E p \in TenantContracts : CreateFuneralRightContract(g, p)
             \/ \E p \in TenantExpedientes : p.sepultura_id = g /\ CreateExpediente(p)
             \/ \E p \in TenantInscripciones : p.sepultura_id = g /\ CreateInscripcionLateral(p)
    \/ \E k \in TenantIds :
          /\ Foreign(contratos, k)
          /\ \/ FuneralRightTitlePdf(k)
             \/ \E person \in TenantPersons : NominateContractBeneficiary(k, person)
             \/ RemoveContractBeneficiary(k, NULL)
             \/ SetContractHolderPensioner(k, NULL, FALSE)
             \/ CreateOwnershipCase(TenantCase(k))
    \/ \E c \in TenantIds :
          /\ Foreign(cases, c)
          /\ \/ OwnershipCaseDetail(c)
             \/ \E person \in TenantPersons : AddCaseParty(c, "NUEVO_TITULAR", person)
             \/ AddCasePublication(c, "BOP")
             \/ \E doc \in TenantDocs : UploadCaseDocument(c, doc, TRUE)
             \/ \E doc \in TenantDocs : VerifyCaseDocument(c, doc, "verify")
             \/ ChangeOwnershipCaseStatus(c, "DOCS_PENDING")
             \/ ApproveOwnershipCase(c)
             \/ RejectOwnershipCase(c, "motivo")
             \/ \E person \in TenantPersons :
                   CloseOwnershipCase(c, ClosePayload("REPLACE", person))
    \/ \E e \in TenantIds :
          /\ Foreign(expedientes, e)
          /\ \/ TransitionExpedienteState(e, "EN_TRAMITE")
             \/ CreateExpedienteOt(e)
             \/ \E o \in TenantIds : CompleteExpedienteOt(e, o)
             \/ \E o \in TenantIds : ExpedienteOtPdf(e, o)
    \/ \E i \in TenantIds :
          Foreign(inscripciones, i) /\ TransitionInscripcionEstado(i, "")
    \/ \E p \in TenantStockExits :
          Foreign(stock, p.stock_id) /\ p.codigo = "" /\ LapidaStockExit(p)

\* the step is a request whose first lookup is of a row of the organization, or
\* of nothing, and that names an id of another organization after it
NamesForeignAfter ==
    \/ \E g \in Sepulturas, p \in TenantContracts :
          /\ Own(sepulturas, g)
          /\ ForeignPerson(p.titular_person_id)
          /\ CreateFuneralRightContract(g, p)
    \/ \E p \in TenantExpedientes :
          /\ Own(sepulturas, p.sepultura_id)
          /\ ForeignPerson(p.difunto_id)
          /\ CreateExpediente(p)
    \/ \E k \in TenantIds, person \in TenantPersons :
          /\ Own(contratos, k)
          /\ ForeignPerson(person)
          /\ NominateContractBeneficiary(k, person)
    \/ \E c \in TenantIds, person \in TenantPersons :
          /\ Own(cases, c)
          /\ ForeignPerson(person)
          /\ \/ AddCaseParty(c, "NUEVO_TITULAR", person)
             \/ CloseOwnershipCase(c, ClosePayload("REPLACE", person))
    \/ \E c \in TenantIds, doc \in TenantDocs :
          /\ Own(cases, c)
          /\ ForeignDoc(c, doc)
          /\ UploadCaseDocument(c, doc, TRUE) \/ VerifyCaseDocument(c, doc, "verify")
    \/ \E e \in TenantIds, o \in TenantIds :
          /\ Own(expedientes, e)
          /\ Foreign(ordenes, o)
          /\ CompleteExpedienteOt(e, o) \/ ExpedienteOtPdf(e, o)
    \/ \E p \in TenantStockExits :
          /\ ~Foreign(stock, p.stock_id)
          /\ Foreign(sepulturas, p.sepultura_id) \/ Foreign(expedientes, p.expediente_id)
          /\ LapidaStockExit(p)
    \/ \E p \in TenantInscripciones :
          /\ Own(sepulturas, p.sepultura_id)
          /\ Foreign(expedientes, p.expediente_id)
          /\ CreateInscripcionLateral(p)
    \/ \E p \in TenantStockEntries :
          Foreign(stock, p.stock_id) /\ p.codigo = "" /\ LapidaStockEntry(p)

\* the step is a stock entry or exit that names a stock item of another
\* organization together with a code
NamesForeignStockWithCode ==
    \/ \E p \in TenantStockEntries :
          Foreign(stock, p.stock_id) /\ p.codigo # "" /\ LapidaStockEntry(p)
    \/ \E p \in TenantStockExits :
          Foreign(stock, p.stock_id) /\ p.codigo # "" /\ LapidaStockExit(p)

\* every row of another organization is after the step as it was before it, and
\* every row the step adds is of the organization of the user
Untouched(before, after) ==
    /\ \A i \in DOMAIN before :
          before[i].org_id # ActiveOrg => i \in DOMAIN after /\ after[i] = before[i]
    /\ \A i \in DOMAIN after : i \notin DOMAIN before => after[i].org_id = ActiveOrg

OtherOrgsUntouched ==
    /\ Untouched(sepulturas, sepulturas')
    /\ Untouched(contratos, contratos')
    /\ Untouched(ownership, ownership')
    /\ Untouched(beneficiarios, beneficiarios')
    /\ Untouched(cases, cases')
    /\ Untouched(tickets, tickets')
    /\ Untouched(invoices, invoices')
    /\ Untouched(payments, payments')
    /\ Untouched(expedientes, expedientes')
    /\ Untouched(ordenes, ordenes')
    /\ Untouched(stock, stock')
    /\ Untouched(stock_movs, stock_movs')
    /\ Untouched(inscripciones, inscripciones')

\* a page or PDF that is served is of a row of the organization of the user
ServedOwn ==
    /\ last'.op = "funeral_right_title_pdf" /\ last'.ok => Own(contratos, last'.ret)
    /\ last'.op = "ownership_case_detail" /\ last'.ok => Own(cases, last'.ret)
    /\ last'.op = "expediente_ot_pdf" /\ last'.ok =>
          Own(ordenes, last'.ret) /\ Own(expedientes, last'.id)

---------------------------------------------------------------------------
(* Provisional cases: publications and the provisional ownership record *)

ProvisionalStarts == {NULL, 1, MaxDay + 1}
ProvisionalTypes == {"PROVISIONAL", "INTER_VIVOS"}
ProvisionalDocs == {"PUBLICACION_BOP", "TITULO_SEPULTURA", "ACREDITACION_PARENTESCO_2_GRADO"}
ChannelInputs == {"bop", "BOP", "TABLON", ""}

InitProvisional ==
    /\ today = 1
    /\ StartWith(OneContract(NULL))

\* one case of either type, created with or without a posted start date
NextProvisional ==
    \/ AdvanceDay
    \/ \E type \in ProvisionalTypes, start \in ProvisionalStarts :
          /\ cases = <<>>
          /\ CreateOwnershipCase([contract_id |-> 1, type |-> type,
                                  provisional_start_date |-> start])
    \/ AddCaseParty(1, "NUEVO_TITULAR", 2)
    \/ \E d \in ProvisionalDocs : VerifyCaseDocument(1, d, "verify")
    \/ \E st \in {"DOCS_PENDING", "UNDER_REVIEW", "CLOSED"} : ChangeOwnershipCaseStatus(1, st)
    \/ ApproveOwnershipCase(1)
    \/ \E channel \in ChannelInputs : AddCasePublication(1, channel)
    \/ CloseOwnershipCase(1, ClosePayload("", NoPerson))

SpecProvisional == InitProvisional /\ [][NextProvisional]_vars

PublishedInBopAndElsewhere(case) ==
    /\ \E k \in Indices(case.publications) : case.publications[k] = "BOP"
    /\ \E k \in Indices(case.publications) : case.publications[k] # "BOP"

\* the step adds one ownership record and the record is as a case of this
\* type requires
CreatesRecordFor(case) ==
    /\ Len(ownership') = Len(ownership) + 1
    /\ LET record == ownership'[Len(ownership')]
       IN IF case.type = "PROVISIONAL"
          THEN /\ record.is_provisional
               /\ case.provisional_start_date # NULL
               /\ record.provisional_until = case.provisional_start_date + (10 * DaysPerYear)
          ELSE /\ ~record.is_provisional
               /\ record.provisional_until = NULL

\* C21: a step that takes a case to CLOSED adds an ownership record; for a
\* PROVISIONAL case the case has a publication in BOP and one in another
\* channel and the record is provisional until the provisional start date of
\* the case plus 10 years; for any other type the record is not provisional.
C21_ProvisionalClose ==
    [][Closes(1) =>
          /\ cases'[1].type = "PROVISIONAL" => PublishedInBopAndElsewhere(cases'[1])
          /\ CreatesRecordFor(cases'[1])]_vars

\* the same for the steps of close_ownership_case alone
CloseRequestProvisional ==
    [][(Closes(1) /\ last'.op = "close_ownership_case") =>
          /\ cases'[1].type = "PROVISIONAL" => PublishedInBopAndElsewhere(cases'[1])
          /\ CreatesRecordFor(cases'[1])]_vars

\* close_ownership_case has closed a PROVISIONAL case whose start date was posted
CloseRequestProvisionalReached ==
    /\ last.op = "close_ownership_case" /\ last.ok
    /\ cases[1].type = "PROVISIONAL"
    /\ cases[1].provisional_start_date # cases[1].closed_at
    /\ \E k \in Indices(cases[1].publications) : cases[1].publications[k] = "TABLON"

---------------------------------------------------------------------------
(* Number sequencing: transfer cases, resolutions and expedientes created on a
   database that may hold the seeded expediente *)

\* seed_demo_data stores expedientes whose numbers (C-2026-0010 .. 0012) lie
\* above the count of the rows it stores; here one row with number 3
seed_demo_data(s) ==
    [s EXCEPT !.expedientes = Append(@,
        [org_id |-> org_id(s), numero |-> Number(YearOf(1), 3),
         tipo |-> "INHUMACION", estado |-> "ABIERTO",
         sepultura_id |-> 1, difunto_id |-> NULL, declarante_id |-> NULL])]

InitNumbering ==
    /\ today = 1
    /\ \/ StartWith(OneContract(NULL))
       \/ StartWith(seed_demo_data(OneContract(NULL)))

NextNumbering ==
    \/ AdvanceDay
    \/ CreateExpediente(ExpedientePayload("INHUMACION", 1, NULL, NULL))
    \/ CreateOwnershipCase([contract_id |-> 1, type |-> "INTER_VIVOS",
                            provisional_start_date |-> NULL])
    \/ \E c \in 1..MaxCases, st \in {"DOCS_PENDING", "UNDER_REVIEW"} :
          ChangeOwnershipCaseStatus(c, st)
    \/ \E c \in 1..MaxCases : ApproveOwnershipCase(c)

SpecNumbering == InitNumbering /\ [][NextNumbering]_vars

\* the numbers of one kind stored for the organization of the user
StoredNumbers(rows, field) ==
    {rows[i][field] : i \in {j \in Indices(rows) : rows[j].org_id = org_id(DB)}} \ {NULL}

FreshInvoiceNumbers ==
    /\ _next_invoice_number(DB, YearOf(today)) \notin StoredNumbers(invoices, "numero")
    /\ _next_receipt_number(DB, YearOf(today)) \notin StoredNumbers(payments, "receipt_number")

FreshCaseNumbers ==
    /\ _next_transfer_number(DB, YearOf(today)) \notin StoredNumbers(cases, "case_number")
    /\ _next_resolution_number(DB, YearOf(today))
            \notin StoredNumbers(cases, "resolution_number")

FreshExpedienteNumbers ==
    _next_expediente_number(DB, YearOf(today)) \notin StoredNumbers(expedientes, "numero")

\* C22: in every reachable state the number the system assigns to the next
\* invoice, receipt, transfer case, resolution or expediente differs from every
\* number of that kind stored for the organization.
C22_NumbersFresh ==
    FreshInvoiceNumbers /\ FreshCaseNumbers /\ FreshExpedienteNumbers

\* no expediente was seeded
NotSeeded == \A i \in Indices(expedientes) : expedientes[i].numero % NumberBase <= i

\* on a database that was not seeded every next number is fresh
NumbersFreshUnlessSeeded == NotSeeded => C22_NumbersFresh

\* two cases with a resolution and two expedientes exist
NumbersAssignedReached ==
    /\ Len(cases) >= 2 /\ \A c \in Indices(cases) : cases[c].resolution_number # NULL
    /\ Len(expedientes) >= 2

---------------------------------------------------------------------------
(* Fields that go with the status of a case *)

HasRejectionReason(case) == case.rejection_reason \notin {NONE, ""}

\* C23: in every reachable state a REJECTED case has a rejection reason, an
\* APPROVED or CLOSED case has a resolution number and a CLOSED case has its
\* closing date, whichever request made the transition.
C23_StatusFields ==
    \A c \in Indices(cases) :
        /\ cases[c].status = "REJECTED" => HasRejectionReason(cases[c])
        /\ cases[c].status \in {"APPROVED", "CLOSED"} => cases[c].resolution_number # NULL
        /\ cases[c].status = "CLOSED" => cases[c].closed_at # NULL

\* the same for the transitions made by approve_ownership_case,
\* reject_ownership_case and close_ownership_case
StatusFieldsAfterOwnRequest ==
    [][\A c \in Indices(cases') :
          (/\ last'.op \in {"approve_ownership_case", "reject_ownership_case",
                            "close_ownership_case"}
           /\ last'.ok /\ last'.id = c) =>
              /\ cases'[c].status = "REJECTED" => HasRejectionReason(cases'[c])
              /\ cases'[c].status \in {"APPROVED", "CLOSED"}
                    => cases'[c].resolution_number # NULL
              /\ cases'[c].status = "CLOSED" => cases'[c].closed_at # NULL]_vars

---------------------------------------------------------------------------
(* Closed cases *)

\* the case was closed by close_ownership_case
ClosedByClose(case) == case.status = "CLOSED" /\ case.closed_at # NULL

\* C24: no step changes the status, the documents, the parties or the
\* publications of a case that close_ownership_case has closed.
C24_ClosedCaseFrozen ==
    [][\A c \in Indices(cases) :
          ClosedByClose(cases[c]) =>
              /\ cases'[c].status = cases[c].status
              /\ cases'[c].documents = cases[c].documents
              /\ cases'[c].parties = cases[c].parties
              /\ cases'[c].publications = cases[c].publications]_vars

\* a case closed by close_ownership_case keeps its status
ClosedCaseStaysClosed ==
    [][\A c \in Indices(cases) :
          ClosedByClose(cases[c]) => cases'[c].status = "CLOSED"]_vars

---------------------------------------------------------------------------
(* The holder a close takes the ownership from *)

\* the ownership records whose end date the step sets
EndedInStep == {i \in Indices(ownership) : ownership'[i].end_date # ownership[i].end_date}

\* C25: the ownership record that a close ends belongs to the person who is
\* the ANTERIOR_TITULAR party of the closed case.
C25_EndsAnteriorTitular ==
    [][\A c \in 1..MaxCases :
          (Closes(c) /\ last'.op = "close_ownership_case") =>
              \A i \in EndedInStep :
                  ownership[i].person_id = _case_party(cases[c], "ANTERIOR_TITULAR")]_vars

\* the same for the first close on a contract
FirstCloseEndsAnteriorTitular ==
    [][\A c \in 1..MaxCases :
          (/\ Closes(c) /\ last'.op = "close_ownership_case"
           /\ \A d \in Indices(cases) : cases[d].status # "CLOSED") =>
              /\ EndedInStep # {}
              /\ \A i \in EndedInStep :
                    ownership[i].person_id = _case_party(cases[c], "ANTERIOR_TITULAR")]_vars

---------------------------------------------------------------------------
(* What a nomination leaves *)

\* the open rows of the contract are one row, of this person
OnlyOpenBeneficiario(rows, contract_id, person_id) ==
    /\ Cardinality(OpenBeneficiarios(rows, contract_id)) = 1
    /\ \A i \in OpenBeneficiarios(rows, contract_id) : rows[i].person_id = person_id

\* C26: after a nomination that succeeds the contract has exactly one open
\* beneficiary row and the row is of the nominated person.
C26_NominationLeavesOneOpenRow ==
    [][\A person \in Persons :
          \/ OnlyOpenBeneficiario(beneficiarios', 1, person)
          \/ ~(NominateContractBeneficiary(1, person) /\ last'.ok)]_vars

\* the same for a nomination made when no row of the contract that is still
\* in force has an end date
NominationWithoutEndedRow ==
    [][\A person \in Persons :
          \/ OnlyOpenBeneficiario(beneficiarios', 1, person)
          \/ \E i \in Indices(beneficiarios) :
                beneficiarios[i].activo_hasta # NULL /\ beneficiarios[i].activo_hasta >= today
          \/ ~(NominateContractBeneficiary(1, person) /\ last'.ok)]_vars

---------------------------------------------------------------------------
(* Graves and their active contracts *)

\* C27: in every reachable state a grave has at most one ACTIVO contract,
\* whatever manual state changes are made between the creations of contracts.
C27_OneActiveContract ==
    \A g \in Sepulturas : Cardinality(ActiveContracts(contratos, g)) <= 1

\* a grave that has its contract was set back to DISPONIBLE by hand and a
\* second contract on it was just refused
C27_Witness ==
    \E g \in Sepulturas :
        /\ Cardinality(ActiveContracts(contratos, g)) = 1
        /\ sepulturas[g].estado = "DISPONIBLE"
        /\ last.op = "create_funeral_right_contract" /\ last.id = g /\ ~last.ok

\* C28: a grave that has an ACTIVO contract is never LLIURE, whatever sequence
\* of manual state changes is made.
C28_OccupiedNeverLliure ==
    \A g \in Sepulturas : ActiveContracts(contratos, g) # {} => sepulturas[g].estado # "LLIURE"

\* no single manual change takes a grave from OCUPADA to LLIURE
NoDirectChangeToLliure ==
    [][\A g \in Sepulturas :
          ~(sepulturas[g].estado = "OCUPADA" /\ sepulturas'[g].estado = "LLIURE")]_vars

---------------------------------------------------------------------------
(* Mass creation on a block that has no grave yet *)

RangeInputs == {<<1, 1>>, <<1, 2>>, <<2, 2>>, <<2, 1>>, <<0, 1>>, <<1>>}

MassInputs == [bloque : {"B-99"}, filas : RangeInputs, columnas : RangeInputs]

InitMass ==
    /\ today = 1
    /\ StartWith([EmptyDB EXCEPT !.sepulturas = <<>>])

NextMass == \E p \in MassInputs : CreateMassSepulturas(p)

SpecMass == InitMass /\ [][NextMass]_vars

\* the graves of the user's organization at a position of a block
GravesAt(rows, bloque, fila, columna) ==
    {i \in DOMAIN rows :
        /\ rows[i].org_id = org_id(DB)
        /\ rows[i].bloque = bloque
        /\ rows[i].fila = fila
        /\ rows[i].columna = columna}

\* C29: in every reachable state no two graves of the cemetery share their
\* (bloque, fila, columna).
C29_OneGravePerPosition ==
    \A i, j \in DOMAIN sepulturas :
        j \in GravesAt(sepulturas, sepulturas[i].bloque, sepulturas[i].fila,
                       sepulturas[i].columna) => i = j

\* a run that succeeds adds graves in state LLIURE only, reports their count
\* and leaves every position of its ranges with a grave
MassRunCreatesLliure ==
    [][\A p \in MassInputs :
          (CreateMassSepulturas(p) /\ last'.ok) =>
              /\ Len(sepulturas') = Len(sepulturas) + last'.ret
              /\ \A i \in DOMAIN sepulturas : sepulturas'[i] = sepulturas[i]
              /\ \A i \in (DOMAIN sepulturas') \ (DOMAIN sepulturas) :
                    /\ sepulturas'[i].estado = "LLIURE"
                    /\ sepulturas'[i].fila \in p.filas[1]..p.filas[2]
                    /\ sepulturas'[i].columna \in p.columnas[1]..p.columnas[2]
              /\ \A fila \in p.filas[1]..p.filas[2], col \in p.columnas[1]..p.columnas[2] :
                    GravesAt(sepulturas', p.bloque, fila, col) # {}]_vars

\* a run that directly follows a successful run with the same payload creates
\* nothing
SecondRunCreatesNothing ==
    [][\A p \in MassInputs :
          (/\ last.op = "create_mass_sepulturas" /\ last.ok
           /\ sepulturas # <<>>
           /\ create_mass_sepulturas([DB EXCEPT !.sepulturas = <<>>], p).ok
           /\ CreateMassSepulturas(p)
           /\ \A fila \in p.filas[1]..p.filas[2], col \in p.columnas[1]..p.columnas[2] :
                 \E i \in DOMAIN sepulturas :
                    /\ sepulturas[i].fila = fila /\ sepulturas[i].columna = col
                    /\ sepulturas[i].numero =
                          ((fila - p.filas[1]) * ((p.columnas[2] - p.columnas[1]) + 1)) + col)
            => last'.ok /\ last'.ret = 0 /\ sepulturas' = sepulturas]_vars

---------------------------------------------------------------------------
(* Two collect_tickets requests in flight on grave 1.  Each request runs in
   its own session: its queries read the committed rows and its own pending
   rows, and its writes reach the database at a flush.  The engine is the one
   SQLALCHEMY_DATABASE_URI names: SQLite lets one session write at a time,
   PostgreSQL locks the rows a session wrote and makes an INSERT wait for an
   uncommitted row with the same unique key. *)

Workers == {"a", "b"}
Engines == {"sqlite", "postgresql"}

IdleWorker ==
    [pc |-> "idle", err |-> "", rows |-> <<>>, total |-> 0, contrato_id |-> 0,
     numero |-> 0, receipt_number |-> 0, locked |-> {}, wrote |-> FALSE, early |-> TRUE]

Other(w) == CHOOSE v \in Workers : v # w

InFlight(w) == workers.req[w].pc \in {"read", "numbered", "flushed", "receipted"}

NoCommitYet == \A v \in Workers : workers.req[v].pc # "committed"

\* the write of worker w has to wait for the other session
WaitsForWriter(w) ==
    /\ workers.engine = "sqlite"
    /\ InFlight(Other(w))
    /\ workers.req[Other(w)].wrote

WaitsForRows(w, ids) ==
    /\ InFlight(Other(w))
    /\ workers.req[Other(w)].locked \cap ids # {}

WaitsForInvoiceNumber(w) ==
    /\ workers.req[Other(w)].pc \in {"flushed", "receipted"}
    /\ workers.req[Other(w)].numero = workers.req[w].numero

\* the ticket rows whose importe or descuento_tipo the request changed
DirtyTickets(w) ==
    {i \in DOMAIN workers.req[w].rows :
        \/ workers.req[w].rows[i].importe # tickets[i].importe
        \/ workers.req[w].rows[i].descuento_tipo # tickets[i].descuento_tipo}

WorkerStep(w, req) ==
    /\ workers' = [workers EXCEPT !.req[w] = req]
    /\ UNCHANGED <<today, current_user, tables, last>>

\* sepultura_tickets_and_invoices, the validations and the pricing of the tickets
CollectRead(w, selected_ids) ==
    /\ workers.req[w].pc = "idle"
    /\ \E titularidad \in active_titular_for_contract(
                              DB, active_contract_for_sepultura(DB, 1), today) :
          LET r == collect_tickets(DB, today, 1, selected_ids, {}, titularidad)
              contrato == active_contract_for_sepultura(DB, 1)
              selected == _selected_pending_tickets(DB, contrato, selected_ids)
          IN WorkerStep(w,
                 IF ~r.ok THEN [workers.req[w] EXCEPT !.pc = "failed", !.err = r.err]
                 ELSE [workers.req[w] EXCEPT
                          !.pc = "read",
                          !.rows = [i \in selected |-> r.s.tickets[i]],
                          !.total = r.s.invoices[r.ret].total_amount,
                          !.contrato_id = contrato])

\* _next_invoice_number: the query flushes the changed ticket rows first
CollectInvoiceNumber(w) ==
    /\ workers.req[w].pc = "read"
    /\ DirtyTickets(w) # {} => ~WaitsForWriter(w) /\ ~WaitsForRows(w, DirtyTickets(w))
    /\ WorkerStep(w, [workers.req[w] EXCEPT
                         !.pc = "numbered",
                         !.numero = _next_invoice_number(DB, YearOf(today)),
                         !.locked = DirtyTickets(w),
                         !.wrote = DirtyTickets(w) # {},
                         !.early = @ /\ NoCommitYet])

\* db.session.add(invoice); db.session.flush()
CollectFlush(w) ==
    /\ workers.req[w].pc = "numbered"
    /\ ~WaitsForWriter(w)
    /\ ~WaitsForInvoiceNumber(w)
    /\ WorkerStep(w,
           IF \E i \in Indices(invoices) :
                 /\ invoices[i].org_id = org_id(DB)
                 /\ invoices[i].numero = workers.req[w].numero
           THEN [workers.req[w] EXCEPT !.pc = "failed", !.err = "IntegrityError"]
           ELSE [workers.req[w] EXCEPT !.pc = "flushed", !.wrote = TRUE])

\* _next_receipt_number
CollectReceiptNumber(w) ==
    /\ workers.req[w].pc = "flushed"
    /\ WorkerStep(w, [workers.req[w] EXCEPT
                         !.pc = "receipted",
                         !.receipt_number = _next_receipt_number(DB, YearOf(today)),
                         !.early = @ /\ NoCommitYet])

\* the rows of the session of worker w, written over the committed rows
SessionRows(w) ==
    LET q == workers.req[w]
        invoice_id == Len(invoices) + 1
    IN [DB EXCEPT
          !.tickets = [i \in Indices(tickets) |->
                         IF i \in DOMAIN q.rows
                         THEN [q.rows[i] EXCEPT !.estado = "COBRADO", !.invoice_id = invoice_id]
                         ELSE tickets[i]],
          !.invoices = Append(@, [org_id |-> org_id(DB), contrato_id |-> q.contrato_id,
                                  sepultura_id |-> 1, numero |-> q.numero,
                                  estado |-> "PAGADA", total_amount |-> q.total]),
          !.payments = Append(@, [org_id |-> org_id(DB), invoice_id |-> invoice_id,
                                  amount |-> q.total,
                                  receipt_number |-> q.receipt_number])]

\* db.session.add(payment), the ticket rows, db.session.commit()
CollectCommit(w) ==
    /\ workers.req[w].pc = "receipted"
    /\ ~WaitsForRows(w, DOMAIN workers.req[w].rows)
    /\ IF Integrity(SessionRows(w))
       THEN /\ tickets' = SessionRows(w).tickets
            /\ invoices' = SessionRows(w).invoices
            /\ payments' = SessionRows(w).payments
            /\ workers' = [workers EXCEPT !.req[w].pc = "committed"]
       ELSE /\ workers' = [workers EXCEPT !.req[w].pc = "failed",
                                          !.req[w].err = "IntegrityError"]
            /\ UNCHANGED <<tickets, invoices, payments>>
    /\ UNCHANGED <<today, current_user, sepulturas, contratos, ownership, beneficiarios,
                   cases, expedientes, ordenes, stock, stock_movs, inscripciones, last>>

\* a write that waits for the other session gives up: "database is locked",
\* a lock timeout
CollectLockTimeout(w) ==
    /\ \/ /\ workers.req[w].pc = "read"
          /\ DirtyTickets(w) # {}
          /\ WaitsForWriter(w) \/ WaitsForRows(w, DirtyTickets(w))
       \/ /\ workers.req[w].pc = "numbered"
          /\ WaitsForWriter(w) \/ WaitsForInvoiceNumber(w)
       \/ /\ workers.req[w].pc = "receipted"
          /\ WaitsForRows(w, DOMAIN workers.req[w].rows)
    /\ WorkerStep(w, [workers.req[w] EXCEPT !.pc = "failed", !.err = "OperationalError"])

\* date.today() moves on while the requests are in flight, up to 1 January of year 2
ClockTick ==
    /\ today < Jan1(2)
    /\ today' = today + 1
    /\ UNCHANGED <<current_user, tables, last, workers>>

\* Grave 1 has a concession with the tickets of years 1 and 2 pending; its
\* holder may have been marked a pensioner since year 2 after the tickets
\* were generated.
RaceTickets(pensionista) ==
    LET s0 == Committing(create_funeral_right_contract(
                  EmptyDB, 1, BillingPayload("CONCESION", 1, Jan1(MaxYear), FALSE, NULL)))
        s1 == Committing(generate_maintenance_tickets_for_year(s0, 1, <<1>>))
        s2 == Committing(generate_maintenance_tickets_for_year(s1, 2, <<1>>))
    IN IF pensionista
       THEN Committing(set_contract_holder_pensioner(s2, 1, 1, Jan1(2), FALSE, 1))
       ELSE s2

InitRace ==
    /\ today = 1
    /\ current_user = 1
    /\ last = NoRequest
    /\ \E engine \in Engines :
          workers = [engine |-> engine, req |-> [w \in Workers |-> IdleWorker]]
    /\ \E pensionista \in BOOLEAN :
          LET s == RaceTickets(pensionista)
          IN /\ sepulturas = s.sepulturas
             /\ contratos = s.contratos
             /\ ownership = s.ownership
             /\ beneficiarios = s.beneficiarios
             /\ cases = s.cases
             /\ tickets = s.tickets
             /\ invoices = s.invoices
             /\ payments = s.payments
             /\ expedientes = s.expedientes
             /\ ordenes = s.ordenes
             /\ stock = s.stock
             /\ stock_movs = s.stock_movs
             /\ inscripciones = s.inscripciones

NextRace ==
    \/ ClockTick
    \/ \E w \in Workers, selected \in SUBSET {1, 2} : CollectRead(w, selected)
    \/ \E w \in Workers : CollectInvoiceNumber(w)
    \/ \E w \in Workers : CollectFlush(w)
    \/ \E w \in Workers : CollectReceiptNumber(w)
    \/ \E w \in Workers : CollectCommit(w)
    \/ \E w \in Workers : CollectLockTimeout(w)

SpecRace == InitRace /\ [][NextRace]_vars

WorkerCommitted(w) == workers.req[w].pc = "committed"

\* both requests read the pending tickets and computed both their numbers
\* before either committed
Interleaved ==
    \A w \in Workers :
        /\ workers.req[w].pc \in {"receipted", "committed", "failed"}
        /\ workers.req[w].receipt_number # 0
        /\ workers.req[w].early

\* the payments whose invoice the ticket carries or carried: the requests
\* that committed with the ticket among their rows
PaidBy(i) == {w \in Workers : WorkerCommitted(w) /\ i \in DOMAIN workers.req[w].rows}

NoSharedNumber == UqInvoiceNumber(DB) /\ UqPaymentReceipt(DB)

\* C30: when two collect_tickets requests for the same grave interleave, both
\* having read the pending tickets and computed their invoice and receipt
\* numbers before either commits, at most one of them commits: no ticket is
\* paid by two payments and no two invoices or payments share a number.
C30_AtMostOneCommits ==
    /\ NoSharedNumber
    /\ Interleaved =>
          /\ ~(\A w \in Workers : WorkerCommitted(w))
          /\ \A i \in Indices(tickets) : Cardinality(PaidBy(i)) <= 1

\* the part of C30 the unique numbers do give: two interleaved requests that
\* computed the same invoice number or the same receipt number never both
\* commit, and no two invoices or payments share a number
SameNumberOneCommits ==
    /\ NoSharedNumber
    /\ (/\ Interleaved
        /\ \/ workers.req["a"].numero = workers.req["b"].numero
           \/ workers.req["a"].receipt_number = workers.req["b"].receipt_number)
       => ~(\A w \in Workers : WorkerCommitted(w))

\* on SQLite the second request cannot flush its invoice while the first
\* holds the database, so it computes its receipt number after the commit
SqliteNeverInterleaved == workers.engine = "sqlite" => ~Interleaved

\* both requests interleaved, one committed and the other was refused
InterleavedOneRefused ==
    /\ Interleaved
    /\ \E w \in Workers :
          /\ WorkerCommitted(w)
          /\ workers.req[Other(w)].pc = "failed"
          /\ workers.req[Other(w)].err = "IntegrityError"

====
